---------------------------- MODULE Spec2Model ----------------------------
(***************************************************************************)
(* A model of the nam-lang interpreter: the shunting-yard statement parser *)
(* (src/src/parser.rs), the postfix evaluation engine (src/src/engine.rs), *)
(* the scalar/matrix arithmetic dispatch (src/src/runtime.rs,              *)
(* src/src/scalar.rs) and the dense matrix type (src/src/matrix.rs).       *)
(*                                                                         *)
(* Scalars are f64 in the source.  They are modelled as extended rationals *)
(* [num, den]: den > 0 is an exact fraction in lowest terms, <<1,0>> and   *)
(* <<-1,0>> are the two infinities and <<0,0>> is NaN.  Rounding and the   *)
(* sign of zero are not modelled: every statement about values below is a  *)
(* statement about the exact arithmetic the code performs.                 *)
(*                                                                         *)
(* A panic of the Rust code (unwrap on None, a failed assert!, an          *)
(* unreachable!, an out-of-range index, a usize underflow) is an outcome   *)
(* of its own, "Panic", never an error value.                              *)
(***************************************************************************)
EXTENDS Integers, Sequences, FiniteSets, TLC

VARIABLES
    variables,   \* Engine.variables: name -> RuntimeVal (Unbound when absent)
    before,      \* Engine.variables as it was when the last Evaluate began
    tokens,      \* the token stream of the statement read last
    prev,        \* the token stream of the statement read before it
    parsed,      \* the result of Parser::parse on tokens
    result,      \* the result of Engine::evaluate on parsed
    pc,          \* "idle" | "read" | "parsed" | "done" | "crashed" (a panic)
    nstmts,      \* statements read so far in this session
    mat,         \* matrix library: the receiver of the operation
    lhs,         \* matrix library: the dividend when mat is a divisor
    op,          \* matrix library: the operation applied last
    out          \* matrix library: what the operation returned

vars == <<variables, before, tokens, prev, parsed, result, pc, nstmts, mat, lhs, op, out>>

-----------------------------------------------------------------------------
(* Bounds of the model.                                                    *)

MaxNum == 5      \* numeric literals of arithmetic statements are 1..MaxNum
MaxStmts == 3    \* statements read in one session
MaxDim == 2      \* matrices of the matrix library have at most MaxDim rows/columns
MaxRows == 3     \* rows of a matrix literal
MaxRowLen == 3   \* cells in one row of a matrix literal
MaxTokens == 4   \* tokens of the statements tried exhaustively, end-of-input apart

-----------------------------------------------------------------------------
(* Scalar = f64, as extended rationals.                                    *)

Abs(x) == IF x < 0 THEN -x ELSE x

Sign(x) == IF x < 0 THEN -1 ELSE IF x > 0 THEN 1 ELSE 0

RECURSIVE Gcd(_, _)
Gcd(a, b) == IF b = 0 THEN a ELSE Gcd(b, a % b)

Rat(n, d) ==
    IF d = 0 THEN [num |-> Sign(n), den |-> 0]
    ELSE LET s == IF d < 0 THEN -1 ELSE 1
             g == Gcd(Abs(n), Abs(d))
         IN  [num |-> (s * n) \div g, den |-> (s * d) \div g]

Num(n) == [num |-> n, den |-> 1]

NaN == [num |-> 0, den |-> 0]

IsNaN(a) == a.den = 0 /\ a.num = 0

IsInf(a) == a.den = 0 /\ a.num # 0

FNeg(a) == [num |-> -a.num, den |-> a.den]

FAdd(a, b) ==
    IF IsNaN(a) \/ IsNaN(b) THEN NaN
    ELSE IF IsInf(a) THEN (IF IsInf(b) /\ b.num # a.num THEN NaN ELSE a)
    ELSE IF IsInf(b) THEN b
    ELSE Rat(a.num * b.den + b.num * a.den, a.den * b.den)

FSub(a, b) == FAdd(a, FNeg(b))

FMul(a, b) ==
    IF IsNaN(a) \/ IsNaN(b) THEN NaN
    ELSE IF IsInf(a) \/ IsInf(b)
         THEN [num |-> Sign(a.num) * Sign(b.num), den |-> 0]
    ELSE Rat(a.num * b.num, a.den * b.den)

FDiv(a, b) ==
    IF IsNaN(a) \/ IsNaN(b) THEN NaN
    ELSE IF IsInf(b) THEN (IF IsInf(a) THEN NaN ELSE Num(0))
    ELSE IF IsInf(a) THEN [num |-> a.num * (IF b.num < 0 THEN -1 ELSE 1), den |-> 0]
    ELSE Rat(a.num * b.den, a.den * b.num)

\* f64 `==`: NaN equals nothing, itself included
FEq(a, b) == ~IsNaN(a) /\ ~IsNaN(b) /\ a = b

-----------------------------------------------------------------------------
(* Matrix: a flat row-major buffer and a (rows, columns) shape.  Rows and  *)
(* columns are indexed from 0 as in the source.                            *)

Zero == Num(0)

One == Num(1)

Matrix_new == [data |-> <<>>, shape |-> <<0, 0>>]

height(m) == m.shape[1]

width(m) == m.shape[2]

is_square(m) == width(m) = height(m)

get_shape(m) == m.shape

\* Index<(usize, usize)>: the callers below keep r < nrows and c < ncols
At(m, r, c) == m.data[r * width(m) + c + 1]

\* IndexMut<(usize, usize)>
Put(m, r, c, v) == [m EXCEPT !.data[r * width(m) + c + 1] = v]

RowOf(m, i) == (i - 1) \div width(m)

ColOf(m, i) == (i - 1) % width(m)

zeros_rect(nrows, ncols) ==
    [data |-> [i \in 1..(nrows * ncols) |-> Zero], shape |-> <<nrows, ncols>>]

zeros_square(size) == zeros_rect(size, size)

identity_square(size) ==
    [data |-> [i \in 1..(size * size) |->
                  IF (i - 1) \div size = (i - 1) % size THEN One ELSE Zero],
     shape |-> <<size, size>>]

\* identity_rect: `data[i * ncols + i] = 1.0` for i in 0..nrows indexes past
\* the buffer when nrows > ncols
identity_rect(nrows, ncols) ==
    IF nrows > ncols THEN [panic |-> TRUE, val |-> zeros_rect(nrows, ncols)]
    ELSE [panic |-> FALSE,
          val |-> [data |-> [i \in 1..(nrows * ncols) |->
                                IF (i - 1) \div ncols = (i - 1) % ncols THEN One ELSE Zero],
                   shape |-> <<nrows, ncols>>]]

\* output[(row, col)] = 1.0 for (col, row) in input.enumerate(); input holds
\* 0-based row numbers, input[col + 1] is the entry of column col
from_permutations_vector(input) ==
    LET n == Len(input)
    IN  [data |-> [i \in 1..(n * n) |->
                      IF input[((i - 1) % n) + 1] = (i - 1) \div n THEN One ELSE Zero],
         shape |-> <<n, n>>]

\* the rows laid out last row first
RECURSIVE FlattenBackwards(_)
FlattenBackwards(rows) ==
    IF rows = <<>> THEN <<>> ELSE FlattenBackwards(Tail(rows)) \o Head(rows)

RECURSIVE Flatten(_)
Flatten(rows) == IF rows = <<>> THEN <<>> ELSE Head(rows) \o Flatten(Tail(rows))

\* try_from_rows with no test of the row lengths
try_from_rows_unchecked(rows) ==
    IF rows = <<>> THEN [ok |-> TRUE, m |-> Matrix_new, a |-> 0, b |-> 0]
    ELSE [ok |-> TRUE,
          m |-> [data |-> Flatten(rows), shape |-> <<Len(rows), Len(rows[1])>>],
          a |-> 0, b |-> 0]

\* Ok(matrix) or Err(InconsistantMatrixWidth(width, row.len()))
try_from_rows(rows) ==
    IF rows = <<>> THEN [ok |-> TRUE, m |-> Matrix_new, a |-> 0, b |-> 0]
    ELSE LET w   == Len(rows[1])
             bad == {i \in 1..Len(rows) : Len(rows[i]) # w}
         IN  IF bad # {}
             THEN LET i == CHOOSE j \in bad : \A k \in bad : j <= k
                  IN  [ok |-> FALSE, m |-> Matrix_new, a |-> w, b |-> Len(rows[i])]
             ELSE [ok |-> TRUE,
                   m |-> [data |-> Flatten(rows), shape |-> <<Len(rows), w>>],
                   a |-> 0, b |-> 0]

\* impl Add for Matrix, after its assert_eq! on the shapes
MatAdd(l, r) == [l EXCEPT !.data = [i \in 1..Len(l.data) |-> FAdd(l.data[i], r.data[i])]]

\* impl Sub for Matrix
MatSub(l, r) == [l EXCEPT !.data = [i \in 1..Len(l.data) |-> FSub(l.data[i], r.data[i])]]

RECURSIVE DotFrom(_, _, _, _, _, _)
DotFrom(l, r, row, col, idx, acc) ==
    IF idx >= width(l) THEN acc
    ELSE DotFrom(l, r, row, col, idx + 1, FAdd(acc, FMul(At(l, row, idx), At(r, idx, col))))

\* impl Mul for Matrix, after its assert_eq!(self.width(), rhs.height())
MatMul(l, r) ==
    IF height(l) = 0 THEN Matrix_new
    ELSE [data |-> [i \in 1..(height(l) * width(r)) |->
                       DotFrom(l, r, (i - 1) \div width(r), (i - 1) % width(r), 0, Zero)],
          shape |-> <<height(l), width(r)>>]

\* impl Neg for Matrix
MatNeg(m) == [m EXCEPT !.data = [i \in 1..Len(m.data) |-> FNeg(m.data[i])]]

add_scalar(m, s) == [m EXCEPT !.data = [i \in 1..Len(m.data) |-> FAdd(m.data[i], s)]]

sub_scalar(m, s) == [m EXCEPT !.data = [i \in 1..Len(m.data) |-> FSub(m.data[i], s)]]

mul_scalar(m, s) == [m EXCEPT !.data = [i \in 1..Len(m.data) |-> FMul(m.data[i], s)]]

div_scalar(m, s) == [m EXCEPT !.data = [i \in 1..Len(m.data) |-> FDiv(m.data[i], s)]]

\* the scalar subtracted from the matrix, for the matrix from the scalar
MatrixSubScalar(s, m) == sub_scalar(m, s)

\* impl Sub<Matrix> for Scalar: rhs.neg().add_scalar(self)
ScalarSubMatrix(s, m) == add_scalar(MatNeg(m), s)

\* impl Div<Matrix> for Scalar: *cell = self / *cell
ScalarDivMatrix(s, m) == [m EXCEPT !.data = [i \in 1..Len(m.data) |-> FDiv(s, m.data[i])]]

\* swaps the cells of rows row1 and row2 in the columns c0..c1
SwapCols(m, row1, row2, c0, c1) ==
    [m EXCEPT !.data = [i \in 1..Len(m.data) |->
        IF ColOf(m, i) < c0 \/ ColOf(m, i) > c1 THEN m.data[i]
        ELSE IF RowOf(m, i) = row1 THEN At(m, row2, ColOf(m, i))
        ELSE IF RowOf(m, i) = row2 THEN At(m, row1, ColOf(m, i))
        ELSE m.data[i]]]

swap_rows_starting_from(m, row1, row2, start_col) ==
    SwapCols(m, row1, row2, start_col, width(m) - 1)

\* called with end_col = pivot_col - 1 on usize: for pivot_col = 0 the
\* subtraction underflows (debug) or the assert end_col < ncols fails (release)
swap_rows_ending_at_panics(m, pivot_col) == pivot_col = 0 \/ pivot_col - 1 >= width(m)

swap_rows_ending_at(m, row1, row2, end_col) == SwapCols(m, row1, row2, 0, end_col)

\* permutations.swap(a, b) on 0-based positions
VecSwap(v, a, b) ==
    [i \in 1..Len(v) |-> IF i = a + 1 THEN v[b + 1] ELSE IF i = b + 1 THEN v[a + 1] ELSE v[i]]

\* row -= pivot row * factor over all columns
SubRow(m, row, prow, factor) ==
    [m EXCEPT !.data = [i \in 1..Len(m.data) |->
        IF RowOf(m, i) = row
        THEN FSub(m.data[i], FMul(At(m, prow, ColOf(m, i)), factor))
        ELSE m.data[i]]]

-----------------------------------------------------------------------------
(* Matrix::lu_decomp, Matrix::rank, Matrix::try_det, Matrix::try_invert    *)

\* the rows pivot_row..height-1 whose cell in column col is not `== 0.0`
NonZeroRowsFrom(m, from, col) ==
    {r \in from..(height(m) - 1) : ~FEq(At(m, r, col), Zero)}

MinOf(S) == CHOOSE x \in S : \A y \in S : x <= y

\* the subtraction loop of lu_decomp over the rows pivot_row+1..height-1
RECURSIVE LuEliminate(_, _, _, _)
LuEliminate(st, pivot_row, pivot_col, row) ==
    IF row >= height(st.upper) THEN st
    ELSE IF FEq(At(st.upper, row, pivot_col), Zero)
         THEN LuEliminate(st, pivot_row, pivot_col, row + 1)
    ELSE LET factor == FDiv(At(st.upper, row, pivot_col), At(st.upper, pivot_row, pivot_col))
         IN  LuEliminate([st EXCEPT !.upper = SubRow(st.upper, row, pivot_row, factor),
                                    !.lower = Put(st.lower, row, pivot_col, factor)],
                         pivot_row, pivot_col, row + 1)

\* the exchange of rows pivot_row and row: upper from pivot_col on, lower
\* up to pivot_col - 1, and the two entries of permutations
LuSwap(st, pivot_row, pivot_col, row) ==
    IF swap_rows_ending_at_panics(st.lower, pivot_col)
    THEN [st EXCEPT !.upper = swap_rows_starting_from(@, pivot_row, row, pivot_col),
                    !.panic = TRUE]
    ELSE [st EXCEPT !.upper = swap_rows_starting_from(@, pivot_row, row, pivot_col),
                    !.lower = swap_rows_ending_at(@, pivot_row, row, pivot_col - 1),
                    !.permutations = VecSwap(@, pivot_row, row)]

\* `if upper[(pivot_row, pivot_col)] == 0.0`: the search for a row below
\* with a nonzero cell in the pivot column; cands are those rows
LuPivotSearch(st, pivot_row, pivot_col, cands) ==
    IF FEq(At(st.upper, pivot_row, pivot_col), Zero) /\ cands # {}
    THEN LuSwap(st, pivot_row, pivot_col, MinOf(cands))
    ELSE st

RECURSIVE LuLoop(_)

\* after the search: a column left without a pivot moves shift on, else the
\* rows below are eliminated and pivot moves on
LuColumn(swapped, pivot_row, pivot_col) ==
    IF swapped.panic THEN swapped
    ELSE IF FEq(At(swapped.upper, pivot_row, pivot_col), Zero)
         THEN LuLoop([swapped EXCEPT !.shift = @ + 1])
    ELSE LuLoop([LuEliminate(swapped, pivot_row, pivot_col, pivot_row + 1)
                   EXCEPT !.pivot = @ + 1])

\* the `while pivot < upper.height() && pivot + shift < upper.width()` loop
LuLoop(st) ==
    IF st.panic \/ ~(st.pivot < height(st.upper) /\ st.pivot + st.shift < width(st.upper))
    THEN st
    ELSE LuColumn(LuPivotSearch(st, st.pivot, st.pivot + st.shift,
                                NonZeroRowsFrom(st.upper, st.pivot, st.pivot + st.shift)),
                  st.pivot, st.pivot + st.shift)

\* `for i in 0..lower.height() { lower[(i, i)] = 1.0 }`: the index asserts
\* i < ncols, so a matrix taller than wide panics here
LuUnitDiagonal(lower) ==
    IF height(lower) > width(lower) THEN [panic |-> TRUE, lower |-> lower]
    ELSE [panic |-> FALSE,
          lower |-> [lower EXCEPT !.data = [i \in 1..Len(lower.data) |->
                        IF RowOf(lower, i) = ColOf(lower, i) THEN One ELSE lower.data[i]]]]

Min(a, b) == IF a <= b THEN a ELSE b

\* what lu_decomp returns from the loop's state st and the diagonal pass d
LuResult(st, d) ==
    IF st.panic \/ d.panic
    THEN [panic |-> TRUE, lower |-> st.lower, upper |-> st.upper,
          permutations |-> st.permutations, shift |-> st.shift, pivots |-> st.pivot,
          rank |-> 0]
    ELSE [panic |-> FALSE, lower |-> d.lower, upper |-> st.upper,
          permutations |-> st.permutations, shift |-> st.shift, pivots |-> st.pivot,
          rank |-> Min(width(st.upper) - st.shift, height(st.upper))]

LuFinish(st) == LuResult(st, LuUnitDiagonal(st.lower))

\* (lower, upper, permutations, rank), or a panic
lu_decomp(self) ==
    LuFinish(LuLoop([lower |-> zeros_rect(height(self), width(self)),
                     upper |-> self,
                     permutations |-> [i \in 1..height(self) |-> i - 1],
                     shift |-> 0, pivot |-> 0, panic |-> FALSE]))

RankOf(lu) == IF lu.panic THEN [panic |-> TRUE, val |-> 0] ELSE [panic |-> FALSE, val |-> lu.rank]

\* rank(): the rank of lu_decomp
rank(self) == RankOf(lu_decomp(self))

RECURSIVE DiagProduct(_, _, _)
DiagProduct(m, i, acc) ==
    IF i >= height(m) THEN acc ELSE DiagProduct(m, i + 1, FMul(acc, At(m, i, i)))

\* the product of the diagonal of row_echelon_form() = lu_decomp().upper
DetOf(lu) ==
    IF lu.panic THEN [panic |-> TRUE, some |-> FALSE, val |-> Zero]
    ELSE [panic |-> FALSE, some |-> TRUE, val |-> DiagProduct(lu.upper, 0, One)]

\* try_det(): None unless square
try_det(self) ==
    IF ~is_square(self) THEN [panic |-> FALSE, some |-> FALSE, val |-> Zero]
    ELSE DetOf(lu_decomp(self))

\* try_invert, the search `for row in prim..self.height()` for a row whose
\* cell in column prim is `!= 0.0`
InvertPivotRows(self, prim) ==
    {r \in prim..(height(self) - 1) : ~FEq(At(self, r, prim), Zero)}

\* the row found is exchanged with row prim in self alone, from column prim on
InvertSwap(self, prim, cands) ==
    IF FEq(At(self, prim, prim), Zero)
    THEN swap_rows_starting_from(self, prim, MinOf(cands), prim)
    ELSE self

\* `self[(prim, cell)] *= factor` for cell in prim..ncols
InvertScale(self, prim, factor) ==
    [self EXCEPT !.data = [i \in 1..Len(self.data) |->
        IF RowOf(self, i) = prim /\ ColOf(self, i) >= prim
        THEN FMul(self.data[i], factor) ELSE self.data[i]]]

\* every other row: row -= row prim * self[(row, prim)], in self and in res
InvertEliminate(self, res, prim) ==
    [self |-> [self EXCEPT !.data = [i \in 1..Len(self.data) |->
                  IF RowOf(self, i) = prim THEN self.data[i]
                  ELSE FSub(self.data[i],
                            FMul(At(self, prim, ColOf(self, i)), At(self, RowOf(self, i), prim)))]],
     res |-> [res EXCEPT !.data = [i \in 1..Len(res.data) |->
                  IF RowOf(res, i) = prim THEN res.data[i]
                  ELSE FSub(res.data[i],
                            FMul(At(res, prim, ColOf(res, i)), At(self, RowOf(res, i), prim)))]],
     none |-> FALSE]

\* row prim of self is scaled by factor, res gets `res[(prim, prim)] = factor`
InvertNormalize(self, res, prim, factor) ==
    InvertEliminate(InvertScale(self, prim, factor), Put(res, prim, prim, factor), prim)

\* `let factor = 1.0 / self[(prim, prim)]`
InvertPivot(self, res, prim) ==
    InvertNormalize(self, res, prim, FDiv(One, At(self, prim, prim)))

\* one pass of `for prim in 0..self.ncols()` with the rows cands of the
\* search; st = [self, res, none]
InvertColumn(st, prim, cands) ==
    IF FEq(At(st.self, prim, prim), Zero) /\ cands = {} THEN [st EXCEPT !.none = TRUE]
    ELSE InvertPivot(InvertSwap(st.self, prim, cands), st.res, prim)

InvertStep(st, prim) == InvertColumn(st, prim, InvertPivotRows(st.self, prim))

RECURSIVE InvertLoop(_, _)
InvertLoop(st, prim) ==
    IF st.none \/ prim >= width(st.self) THEN st
    ELSE InvertLoop(InvertStep(st, prim), prim + 1)

\* the check after the loop: last_cell() == Some(&1.0) and the rest of the
\* last row all `== 0.0`
InvertFullRank(self) ==
    /\ Len(self.data) > 0
    /\ FEq(self.data[Len(self.data)], One)
    /\ \A i \in 0..(width(self) - 2) : FEq(At(self, height(self) - 1, i), Zero)

InvertResult(st) ==
    IF st.none \/ ~InvertFullRank(st.self)
    THEN [some |-> FALSE, val |-> Matrix_new]
    ELSE [some |-> TRUE, val |-> st.res]

\* try_invert(): [some, val]
try_invert(self) ==
    IF ~is_square(self) THEN [some |-> FALSE, val |-> Matrix_new]
    ELSE InvertResult(InvertLoop([self |-> self, res |-> identity_square(height(self)),
                                  none |-> FALSE], 0))

-----------------------------------------------------------------------------
(* RuntimeVal and EvaluationError (src/src/runtime.rs, src/src/errors.rs)  *)

Scalar(n) == [k |-> "Scalar", n |-> n, s |-> "", m |-> Matrix_new]

MatrixVal(m) == [k |-> "Matrix", n |-> Zero, s |-> "", m |-> m]

VariableVal(name) == [k |-> "Variable", n |-> Zero, s |-> name, m |-> Matrix_new]

\* a name with no entry in Engine.variables
Unbound == [k |-> "Unbound", n |-> Zero, s |-> "", m |-> Matrix_new]

NoError == [k |-> "", s |-> "", a |-> <<>>, b |-> <<>>]

NonexistantVar(name) == [k |-> "NonexistantVar", s |-> name, a |-> <<>>, b |-> <<>>]

NestedMatrices == [k |-> "NestedMatrices", s |-> "", a |-> <<>>, b |-> <<>>]

InconsistantMatrixWidth(x, y) ==
    [k |-> "InconsistantMatrixWidth", s |-> "", a |-> <<x>>, b |-> <<y>>]

DimensionsMismatch(l, r) == [k |-> "DimensionsMismatch", s |-> "", a |-> l, b |-> r]

NoninvertibleDivisorMatrix ==
    [k |-> "NoninvertibleDivisorMatrix", s |-> "", a |-> <<>>, b |-> <<>>]

InvalidArithmaticExpression ==
    [k |-> "InvalidArithmaticExpression", s |-> "", a |-> <<>>, b |-> <<>>]

AssignmentToNonVariable ==
    [k |-> "AssignmentToNonVariable", s |-> "", a |-> <<>>, b |-> <<>>]

\* Result<RuntimeVal, EvaluationError>, or a panic
Ok(v) == [st |-> "Ok", val |-> v, err |-> NoError]

Err(e) == [st |-> "Err", val |-> Unbound, err |-> e]

Panic == [st |-> "Panic", val |-> Unbound, err |-> NoError]

NoResult == [st |-> "None", val |-> Unbound, err |-> NoError]

\* impl Add for Matrix: assert_eq!(self.shape, rhs.shape), then the sum
MatrixAdd(l, r) ==
    IF get_shape(l) # get_shape(r) THEN Panic ELSE Ok(MatrixVal(MatAdd(l, r)))

\* impl Sub for Matrix: assert_eq!(self.shape, rhs.shape), then the difference
MatrixSub(l, r) ==
    IF get_shape(l) # get_shape(r) THEN Panic ELSE Ok(MatrixVal(MatSub(l, r)))

\* impl Mul for Matrix: assert_eq!(self.width(), rhs.height()), then the product
MatrixMul(l, r) ==
    IF width(l) # height(r) THEN Panic ELSE Ok(MatrixVal(MatMul(l, r)))

\* try_mul handing every pair of matrices to the Matrix operator
try_mul_unchecked(l, r) ==
    IF l.k = "Scalar" /\ r.k = "Scalar" THEN Ok(Scalar(FMul(l.n, r.n)))
    ELSE IF l.k = "Matrix" /\ r.k = "Matrix" THEN MatrixMul(l.m, r.m)
    ELSE IF l.k = "Matrix" /\ r.k = "Scalar" THEN Ok(MatrixVal(mul_scalar(l.m, r.n)))
    ELSE IF l.k = "Scalar" /\ r.k = "Matrix" THEN Ok(MatrixVal(mul_scalar(r.m, l.n)))
    ELSE Panic

try_add(l, r) ==
    IF l.k = "Scalar" /\ r.k = "Scalar" THEN Ok(Scalar(FAdd(l.n, r.n)))
    ELSE IF l.k = "Matrix" /\ r.k = "Matrix"
         THEN IF get_shape(l.m) # get_shape(r.m)
              THEN Err(DimensionsMismatch(get_shape(l.m), get_shape(r.m)))
              ELSE MatrixAdd(l.m, r.m)
    ELSE IF l.k = "Matrix" /\ r.k = "Scalar" THEN Ok(MatrixVal(add_scalar(l.m, r.n)))
    ELSE IF l.k = "Scalar" /\ r.k = "Matrix" THEN Ok(MatrixVal(add_scalar(r.m, l.n)))
    ELSE Panic

try_sub(l, r) ==
    IF l.k = "Scalar" /\ r.k = "Scalar" THEN Ok(Scalar(FSub(l.n, r.n)))
    ELSE IF l.k = "Matrix" /\ r.k = "Matrix"
         THEN IF get_shape(l.m) # get_shape(r.m)
              THEN Err(DimensionsMismatch(get_shape(l.m), get_shape(r.m)))
              ELSE MatrixSub(l.m, r.m)
    ELSE IF l.k = "Matrix" /\ r.k = "Scalar" THEN Ok(MatrixVal(sub_scalar(l.m, r.n)))
    ELSE IF l.k = "Scalar" /\ r.k = "Matrix" THEN Ok(MatrixVal(ScalarSubMatrix(l.n, r.m)))
    ELSE Panic

try_mul(l, r) ==
    IF l.k = "Scalar" /\ r.k = "Scalar" THEN Ok(Scalar(FMul(l.n, r.n)))
    ELSE IF l.k = "Matrix" /\ r.k = "Matrix"
         THEN IF width(l.m) # height(r.m)
              THEN Err(DimensionsMismatch(get_shape(l.m), get_shape(r.m)))
              ELSE MatrixMul(l.m, r.m)
    ELSE IF l.k = "Matrix" /\ r.k = "Scalar" THEN Ok(MatrixVal(mul_scalar(l.m, r.n)))
    ELSE IF l.k = "Scalar" /\ r.k = "Matrix" THEN Ok(MatrixVal(mul_scalar(r.m, l.n)))
    ELSE Panic

\* `match rhs.try_invert()`: Some(inv_rhs) => lhs * inv_rhs
MulByInverse(lhs_m, inv_rhs) ==
    IF inv_rhs.some THEN MatrixMul(lhs_m, inv_rhs.val)
    ELSE Err(NoninvertibleDivisorMatrix)

try_div(l, r) ==
    IF l.k = "Scalar" /\ r.k = "Scalar" THEN Ok(Scalar(FDiv(l.n, r.n)))
    ELSE IF l.k = "Matrix" /\ r.k = "Matrix"
         THEN IF ~is_square(r.m) THEN Err(NoninvertibleDivisorMatrix)
              ELSE IF get_shape(l.m) # get_shape(r.m)
                   THEN Err(DimensionsMismatch(get_shape(l.m), get_shape(r.m)))
              ELSE MulByInverse(l.m, try_invert(r.m))
    ELSE IF l.k = "Matrix" /\ r.k = "Scalar" THEN Ok(MatrixVal(div_scalar(l.m, r.n)))
    ELSE IF l.k = "Scalar" /\ r.k = "Matrix" THEN Ok(MatrixVal(ScalarDivMatrix(l.n, r.m)))
    ELSE Panic

-----------------------------------------------------------------------------
(* Token (src/src/token.rs) and the AST value model.                       *)

Tok(kind) == [k |-> kind, n |-> 0, s |-> ""]

NumericLiteral(n) == [k |-> "NumericLiteral", n |-> n, s |-> ""]

Identifier(name) == [k |-> "Identifier", n |-> 0, s |-> name]

\* Option<Token>::None
NoToken == Tok("None")

OperatorTokens == {"Plus", "Minus", "Asterisk", "Slash", "Equal"}

\* Operator::try_from(Token), on the five operator tokens
OperatorOf(tok) ==
    CASE tok.k = "Plus" -> "Add"
      [] tok.k = "Minus" -> "Subtract"
      [] tok.k = "Asterisk" -> "Multiply"
      [] tok.k = "Slash" -> "Divide"
      [] tok.k = "Equal" -> "Assign"

\* Operator::precedence(): Multiply/Divide = 3, Add/Subtract = 2, Assign = 1
precedence(o) ==
    CASE o \in {"Multiply", "Divide"} -> 3
      [] o \in {"Add", "Subtract"} -> 2
      [] o = "Assign" -> 1

\* ASTNode { value, store_in_ans, print_result }; value is one of Number(n),
\* Variable(s), Operator(s), Matrix(rows), ArithmaticExpr(expr)
Node(kind, n, s, rows, expr) ==
    [k |-> kind, n |-> n, s |-> s, rows |-> rows, expr |-> expr,
     store_in_ans |-> FALSE, print_result |-> FALSE]

NumberNode(n) == Node("Number", Num(n), "", <<>>, <<>>)

VariableNode(name) == Node("Variable", Zero, name, <<>>, <<>>)

OperatorNode(o) == Node("Operator", Zero, o, <<>>, <<>>)

MatrixNode(rows) == Node("Matrix", Zero, "", rows, <<>>)

ArithmaticExpr(expr) == Node("ArithmaticExpr", Zero, "", <<>>, expr)

NoNode == Node("None", Zero, "", <<>>, <<>>)

\* Result<ASTNode, ParsingError>, or a panic
ParseOk(node) == [st |-> "Ok", node |-> node, err |-> "", found |-> ""]

ParseErr(e) == [st |-> "Err", node |-> NoNode, err |-> e, found |-> ""]

UnexpectedToken(tok) == [st |-> "Err", node |-> NoNode, err |-> "UnexpectedToken", found |-> tok.k]

ParsePanic == [st |-> "Panic", node |-> NoNode, err |-> "", found |-> ""]

NoParse == [st |-> "None", node |-> NoNode, err |-> "", found |-> ""]

Last(q) == q[Len(q)]

Front(q) == SubSeq(q, 1, Len(q) - 1)

RECURSIVE Reverse(_)
Reverse(q) == IF q = <<>> THEN <<>> ELSE Reverse(Tail(q)) \o <<Head(q)>>

-----------------------------------------------------------------------------
(* Parser (src/src/parser.rs).  A parser is [input, is_inside_matrix,      *)
(* last_token]; every routine returns the parser it leaves behind.         *)

Parser_new(input) == [input |-> input, is_inside_matrix |-> FALSE, last_token |-> NoToken]

\* a next_token that reads the input only and forgets the token saved
next_token_unsaved(p) ==
    IF p.input = <<>> THEN [p |-> [p EXCEPT !.last_token = NoToken], tok |-> NoToken]
    ELSE [p |-> [p EXCEPT !.input = Tail(p.input), !.last_token = NoToken],
          tok |-> Head(p.input)]

next_token(p) ==
    IF p.last_token # NoToken THEN [p |-> [p EXCEPT !.last_token = NoToken], tok |-> p.last_token]
    ELSE IF p.input = <<>> THEN [p |-> p, tok |-> NoToken]
    ELSE [p |-> [p EXCEPT !.input = Tail(p.input)], tok |-> Head(p.input)]

\* the comparison of the pop loop turned round
ShouldPopReversed(prec, last_precedence) == prec > last_precedence

\* `while precedence < last_precedence`
ShouldPop(prec, last_precedence) == prec < last_precedence

\* the loop that moves operators from temp to res before an operator is
\* pushed; st = [temp, res, last_precedence, panic]
RECURSIVE PopOperators(_, _)
PopOperators(st, prec) ==
    IF st.panic \/ ~ShouldPop(prec, st.last_precedence) THEN st
    ELSE IF st.temp = <<>> \/ Last(st.temp).k = "OpenParen"
         THEN [st EXCEPT !.panic = TRUE]     \* temp.pop().unwrap().try_into().unwrap()
    ELSE LET rest == Front(st.temp)
         IN  PopOperators(
               [st EXCEPT
                  !.res = Append(@, OperatorNode(OperatorOf(Last(st.temp)))),
                  !.temp = rest,
                  !.last_precedence =
                      IF rest = <<>> THEN 0
                      ELSE IF Last(rest).k = "OpenParen" THEN 0
                      ELSE precedence(OperatorOf(Last(rest)))],
               prec)

\* the CloseParen loop dropping the operators it pops
RECURSIVE PopToOpenParenDropping(_, _)
PopToOpenParenDropping(temp, res) ==
    IF temp = <<>> THEN [found |-> FALSE, temp |-> temp, res |-> res]
    ELSE IF Last(temp).k = "OpenParen" THEN [found |-> TRUE, temp |-> Front(temp), res |-> res]
    ELSE PopToOpenParenDropping(Front(temp), res)

\* the `loop` of the CloseParen arm: pops to the nearest OpenParen;
\* found = FALSE when temp empties first
RECURSIVE PopToOpenParen(_, _)
PopToOpenParen(temp, res) ==
    IF temp = <<>> THEN [found |-> FALSE, temp |-> temp, res |-> res]
    ELSE IF Last(temp).k = "OpenParen" THEN [found |-> TRUE, temp |-> Front(temp), res |-> res]
    ELSE PopToOpenParen(Front(temp), Append(res, OperatorNode(OperatorOf(Last(temp)))))

\* `while let Some(token) = temp.pop()` after the token loop
RECURSIVE DrainOperators(_, _)
DrainOperators(temp, res) ==
    IF temp = <<>> THEN [ok |-> TRUE, res |-> res]
    ELSE IF Last(temp).k = "OpenParen" THEN [ok |-> FALSE, res |-> res]
    ELSE DrainOperators(Front(temp), Append(res, OperatorNode(OperatorOf(Last(temp)))))

\* the end of parse_arithmatic_expr without the test for an empty res
ArithFinishUnchecked(st) ==
    LET d == DrainOperators(st.temp, st.res)
    IN  IF ~d.ok THEN [p |-> st.p, r |-> ParseErr("UnmatchedOpenParen")]
        ELSE IF Len(d.res) = 1 THEN [p |-> st.p, r |-> ParseOk(d.res[1])]
        ELSE [p |-> st.p, r |-> ParseOk(ArithmaticExpr(Reverse(d.res)))]

\* parse_arithmatic_expr after its token loop
ArithFinish(st) ==
    IF st.res = <<>> THEN [p |-> st.p, r |-> ParseErr("UnexpectedEndOfInput")]
    ELSE LET d == DrainOperators(st.temp, st.res)
         IN  IF ~d.ok THEN [p |-> st.p, r |-> ParseErr("UnmatchedOpenParen")]
             ELSE IF Len(d.res) = 1 THEN [p |-> st.p, r |-> ParseOk(d.res[1])]
             ELSE [p |-> st.p, r |-> ParseOk(ArithmaticExpr(Reverse(d.res)))]

RECURSIVE ArithLoop(_)
RECURSIVE parse_matrix(_)
RECURSIVE MatrixLoop(_, _, _)

\* an operand-opening token after an operand ending the expression wherever
\* it is met
AfterOperandEnding(st, p1, tok) ==
    ArithFinish([st EXCEPT !.p = [p1 EXCEPT !.last_token = tok]])

\* an operand-opening token met right after an operand
AfterOperand(st, p1, tok) ==
    IF p1.is_inside_matrix
    THEN ArithFinish([st EXCEPT !.p = [p1 EXCEPT !.last_token = tok]])
    ELSE [p |-> p1, r |-> ParseErr("InvalidArithmaticExpression")]

\* the OpenBracket arm once parse_matrix has returned m
MatrixOperand(st, m) ==
    IF m.r.st # "Ok" THEN m
    ELSE ArithLoop([st EXCEPT !.p = m.p, !.res = Append(@, m.r.node),
                              !.last_was_operand = TRUE])

\* the operator arm once the pop loop has returned po
PushOperator(st, p1, tok, prec, po) ==
    IF po.panic THEN [p |-> p1, r |-> ParsePanic]
    ELSE ArithLoop([st EXCEPT !.p = p1, !.res = po.res,
                              !.temp = Append(po.temp, tok),
                              !.last_precedence = prec,
                              !.last_was_operand = FALSE])

\* the CloseParen arm leaving precedence 0 behind, the saved one dropped
CloseGroupForgetful(st, p1, pp) ==
    IF ~pp.found THEN [p |-> p1, r |-> ParseErr("UnmatchedCloseParen")]
    ELSE IF st.precedence_stack = <<>> THEN [p |-> p1, r |-> ParsePanic]
    ELSE ArithLoop([st EXCEPT !.p = p1, !.temp = pp.temp, !.res = pp.res,
                              !.last_precedence = 0,
                              !.precedence_stack = Front(@),
                              !.last_was_operand = TRUE])

\* the CloseParen arm once the pop loop has returned pp
CloseGroup(st, p1, pp) ==
    IF ~pp.found THEN [p |-> p1, r |-> ParseErr("UnmatchedCloseParen")]
    ELSE IF st.precedence_stack = <<>> THEN [p |-> p1, r |-> ParsePanic]
    ELSE ArithLoop([st EXCEPT !.p = p1, !.temp = pp.temp, !.res = pp.res,
                              !.last_precedence = Last(st.precedence_stack),
                              !.precedence_stack = Front(@),
                              !.last_was_operand = TRUE])

\* `match token` of parse_arithmatic_expr on the token tok, p1 being the
\* parser after next_token
ArithToken(st, p1, tok) ==
    CASE tok = NoToken -> ArithFinish([st EXCEPT !.p = p1])
      [] tok.k = "NumericLiteral" ->
           IF st.last_was_operand THEN AfterOperand(st, p1, tok)
           ELSE ArithLoop([st EXCEPT !.p = p1, !.res = Append(@, NumberNode(tok.n)),
                                     !.last_was_operand = TRUE])
      [] tok.k = "Identifier" ->
           IF st.last_was_operand THEN AfterOperand(st, p1, tok)
           ELSE ArithLoop([st EXCEPT !.p = p1, !.res = Append(@, VariableNode(tok.s)),
                                     !.last_was_operand = TRUE])
      [] tok.k = "OpenBracket" ->
           IF st.last_was_operand THEN AfterOperand(st, p1, tok)
           ELSE MatrixOperand(st, parse_matrix([p1 EXCEPT !.last_token = tok]))
      [] tok.k \in OperatorTokens ->
           IF ~st.last_was_operand
           THEN [p |-> p1, r |-> ParseErr("InvalidArithmaticExpression")]
           ELSE PushOperator(st, p1, tok, precedence(OperatorOf(tok)),
                             PopOperators([temp |-> st.temp, res |-> st.res,
                                           last_precedence |-> st.last_precedence,
                                           panic |-> FALSE],
                                          precedence(OperatorOf(tok))))
      [] tok.k = "OpenParen" ->
           IF st.last_was_operand THEN AfterOperand(st, p1, tok)
           ELSE ArithLoop([st EXCEPT !.p = p1, !.temp = Append(@, tok),
                                     !.precedence_stack = Append(@, st.last_precedence),
                                     !.last_precedence = 0,
                                     !.last_was_operand = FALSE])
      [] tok.k = "CloseParen" ->
           IF ~st.last_was_operand
           THEN [p |-> p1, r |-> ParseErr("InvalidArithmaticExpression")]
           ELSE CloseGroup(st, p1, PopToOpenParen(st.temp, st.res))
      [] OTHER -> ArithFinish([st EXCEPT !.p = [p1 EXCEPT !.last_token = tok]])

ArithNext(st, nt) == ArithToken(st, nt.p, nt.tok)

\* the token loop of parse_arithmatic_expr;
\* st = [p, temp, res, precedence_stack, last_precedence, last_was_operand]
ArithLoop(st) == ArithNext(st, next_token(st.p))

parse_arithmatic_expr(p) ==
    ArithLoop([p |-> p, temp |-> <<>>, res |-> <<>>, precedence_stack |-> <<>>,
               last_precedence |-> 0, last_was_operand |-> FALSE])

parse_expr(p) == parse_arithmatic_expr(p)

\* a cell parsed as e: `vec![first]` for the first, `row.push(expr)` after
MatrixCell(m, row, e) ==
    IF e.r.st # "Ok" THEN e ELSE MatrixLoop(e.p, m, Append(row, e.r.node))

\* `match t` of parse_matrix on the token t, p1 being the parser after
\* next_token
MatrixToken(p1, m, row, t) ==
    CASE t = NoToken -> [p |-> p1, r |-> ParsePanic]      \* unreachable!()
      [] t.k = "Comma" -> MatrixLoop(p1, m, row)
      [] t.k = "SemiColon" ->
           IF row = <<>> THEN MatrixLoop(p1, m, row)
           ELSE MatrixLoop(p1, Append(m, row), <<>>)
      [] t.k = "CloseBracket" ->
           [p |-> [p1 EXCEPT !.is_inside_matrix = FALSE],
            r |-> ParseOk(MatrixNode(IF row # <<>> THEN Append(m, row) ELSE m))]
      [] t.k = "EndOfFile" -> [p |-> p1, r |-> ParseErr("IncompleteStatement")]
      [] OTHER ->
           MatrixCell(m, row, parse_expr([p1 EXCEPT !.is_inside_matrix = TRUE,
                                                    !.last_token = t]))

MatrixNext(nt, m, row) == MatrixToken(nt.p, m, row, nt.tok)

\* the `while let Some(t) = self.next_token()?` loop of parse_matrix
MatrixLoop(p, m, row) == MatrixNext(next_token(p), m, row)

\* parse_matrix after `self.last_token = None`
MatrixOpen(p0) ==
    IF p0.input # <<>> /\ Head(p0.input).k = "CloseBracket"
    THEN [p |-> [p0 EXCEPT !.input = Tail(@)], r |-> ParseOk(MatrixNode(<<>>))]
    ELSE MatrixCell(<<>>, <<>>, parse_expr([p0 EXCEPT !.is_inside_matrix = TRUE]))

\* entered with last_token = Some(OpenBracket), which the assert_eq! checks
parse_matrix(p) ==
    IF p.last_token.k # "OpenBracket" THEN [p |-> p, r |-> ParsePanic]
    ELSE MatrixOpen([p EXCEPT !.last_token = NoToken])

\* `expr.contains(&ASTNodeValue::Operator(Operator::Assign))`
ContainsAssign(expr) == \E i \in 1..Len(expr) : expr[i].k = "Operator" /\ expr[i].s = "Assign"

\* a rule that stores every statement in `ans`
StoreInAnsAlways(node) == TRUE

\* the store_in_ans rule of parse_stmt
StoreInAns(node) ==
    CASE node.k = "Number" -> TRUE
      [] node.k = "Matrix" -> TRUE
      [] node.k = "ArithmaticExpr" -> ~ContainsAssign(node.expr)
      [] node.k = "Variable" -> FALSE

\* `match self.next_token()?` of parse_stmt on the token t, then the
\* store_in_ans rule
StmtEnd(node, t) ==
    CASE t = NoToken -> ParsePanic               \* unreachable!()
      [] t.k \in {"EndOfFile", "EndOfLine", "SemiColon"} ->
           IF node.k = "Operator" THEN UnexpectedToken(Tok(node.s))
           ELSE ParseOk([node EXCEPT !.print_result = (t.k # "SemiColon"),
                                     !.store_in_ans = StoreInAns(node)])
      [] OTHER -> UnexpectedToken(t)

\* parse_stmt once parse_expr has returned e
StmtExpr(e) ==
    IF e.r.st # "Ok" THEN e.r ELSE StmtEnd(e.r.node, next_token(e.p).tok)

parse_stmt(p) == StmtExpr(parse_expr(p))

\* Parser::new(tokens).parse()
Parser_parse(input) == parse_stmt(Parser_new(input))

-----------------------------------------------------------------------------
(* Engine (src/src/engine.rs).  Every routine returns the result and the   *)
(* variables map it leaves behind: [res, env].                             *)

Names == {"x", "y", "z", "ans"}

\* Engine::new(): no variable is bound
Engine_new == [n \in Names |-> Unbound]

\* HashMap::insert
\* a binding shared by the names that held the same value
assign_var_shared(env, var_name, var_value) ==
    [n \in DOMAIN env |->
        IF n = var_name \/ (env[var_name] # Unbound /\ env[n] = env[var_name])
        THEN var_value ELSE env[n]]

assign_var(env, var_name, var_value) == [env EXCEPT ![var_name] = var_value]

\* HashMap::get(..).cloned(); Unbound stands for None
get_var(env, var_name) == env[var_name]

\* the assignment binding `ans` in place of its target
AssignTargetAns(env, var_name, right) == assign_var(env, "ans", right)

\* the assignment storing the name it was given, not the value
AssignTargetByName(env, var_name, right) == assign_var(env, var_name, VariableVal(var_name))

\* the binding made when Assign meets Variable(var_name) on the left
AssignTarget(env, var_name, right) == assign_var(env, var_name, right)

\* the arithmetic arms of `match operator`
ApplyOperator(operator, left, right) ==
    CASE operator = "Add" -> try_add(left, right)
      [] operator = "Subtract" -> try_sub(left, right)
      [] operator = "Multiply" -> try_mul(left, right)
      [] operator = "Divide" -> try_div(left, right)
      [] operator = "Assign" ->
           IF left.k = "Variable" THEN Panic ELSE Err(AssignmentToNonVariable)

\* an `ans` update made whatever store_in_ans says
StoreAnsAlways(ast, env, res) == assign_var(env, "ans", res)

\* the implicit `ans` update of a value that is about to be returned
StoreAns(ast, env, res) ==
    IF ast.store_in_ans THEN assign_var(env, "ans", res) ELSE env

RECURSIVE evaluate(_, _)
RECURSIVE EvalCells(_, _, _)
RECURSIVE EvalRows(_, _, _, _)
RECURSIVE RpnLoop(_, _, _)

\* a cell that evaluated to Variable(name); v is get_var(name)
CellVariable(row, env, cells, name, v) ==
    CASE v.k = "Scalar" -> EvalCells(Tail(row), env, Append(cells, v.n))
      [] v.k = "Matrix" -> [res |-> Err(NestedMatrices), env |-> env, cells |-> cells]
      [] v.k = "Unbound" -> [res |-> Err(NonexistantVar(name)), env |-> env, cells |-> cells]
      [] OTHER -> [res |-> Panic, env |-> env, cells |-> cells]

\* the cell match with no NestedMatrices arm: a Matrix is kept as a cell
CellValueNesting(row, cells, c) ==
    IF c.res.st # "Ok" THEN [res |-> c.res, env |-> c.env, cells |-> cells]
    ELSE IF c.res.val.k = "Matrix" THEN EvalCells(Tail(row), c.env, Append(cells, c.res.val.m))
    ELSE IF c.res.val.k = "Scalar" THEN EvalCells(Tail(row), c.env, Append(cells, c.res.val.n))
    ELSE CellVariable(row, c.env, cells, c.res.val.s, get_var(c.env, c.res.val.s))

\* `match self.evaluate(cell)?` on the outcome c of evaluating the cell
CellValue(row, cells, c) ==
    IF c.res.st # "Ok" THEN [res |-> c.res, env |-> c.env, cells |-> cells]
    ELSE CASE c.res.val.k = "Matrix" ->
                [res |-> Err(NestedMatrices), env |-> c.env, cells |-> cells]
           [] c.res.val.k = "Scalar" ->
                EvalCells(Tail(row), c.env, Append(cells, c.res.val.n))
           [] c.res.val.k = "Variable" ->
                CellVariable(row, c.env, cells, c.res.val.s, get_var(c.env, c.res.val.s))
           [] OTHER -> [res |-> Panic, env |-> c.env, cells |-> cells]

\* `for cell in row`: the row's scalars in cells, or the first failure
EvalCells(row, env, cells) ==
    IF row = <<>> THEN [res |-> Ok(Unbound), env |-> env, cells |-> cells]
    ELSE CellValue(row, cells, evaluate(Head(row), env))

\* a row whose cells evaluated to r
RowValue(rows, w, res_mat, r) ==
    IF r.res.st # "Ok" THEN [res |-> r.res, env |-> r.env, res_mat |-> res_mat]
    ELSE EvalRows(Tail(rows), w, r.env, Append(res_mat, r.cells))

\* the rows evaluated with no width check before the cells of a row
EvalRowsUnchecked(rows, w, env, res_mat) ==
    IF rows = <<>> THEN [res |-> Ok(Unbound), env |-> env, res_mat |-> res_mat]
    ELSE RowValue(rows, w, res_mat, EvalCells(Head(rows), env, <<>>))

\* `for row in mat`: the width check, then the cells of the row
EvalRows(rows, w, env, res_mat) ==
    IF rows = <<>> THEN [res |-> Ok(Unbound), env |-> env, res_mat |-> res_mat]
    ELSE IF w # Len(Head(rows))
         THEN [res |-> Err(InconsistantMatrixWidth(w, Len(Head(rows)))), env |-> env,
               res_mat |-> res_mat]
    ELSE RowValue(rows, w, res_mat, EvalCells(Head(rows), env, <<>>))

\* a return out of the `while let` loop
RpnReturn(r, env, stack) == [res |-> r, env |-> env, stack |-> stack]

\* `evaluation_stack.push(left.try_xxx(right)?)`; stack2 is the stack
\* without the two operands
RpnPush(rest, stack2, env, r) ==
    IF r.st # "Ok" THEN RpnReturn(r, env, stack2)
    ELSE RpnLoop(rest, Append(stack2, r.val), env)

\* `match operator` on the operands left (l before it was looked up) and right
RpnApply(rest, stack2, env, operator, l, left, right) ==
    IF left.k = "Unbound" THEN RpnReturn(Err(NonexistantVar(l.s)), env, stack2)
    ELSE RpnPush(rest, stack2, env, ApplyOperator(operator, left, right))

\* the left operand looked up before the operator is considered
RpnLeftEager(rest, stack2, env, operator, l, right) ==
    IF l.k = "Variable" /\ get_var(env, l.s).k = "Unbound"
    THEN RpnReturn(Err(NonexistantVar(l.s)), env, stack2)
    ELSE IF l.k = "Variable" /\ operator = "Assign"
    THEN RpnLoop(rest, Append(stack2, VariableVal(l.s)), AssignTarget(env, l.s, right))
    ELSE RpnApply(rest, stack2, env, operator, l,
                  IF l.k = "Variable" THEN get_var(env, l.s) ELSE l, right)

\* `let left = match evaluation_stack.pop()` on the popped l
RpnLeft(rest, stack2, env, operator, l, right) ==
    IF l.k = "Variable" /\ operator = "Assign"
    THEN RpnLoop(rest, Append(stack2, VariableVal(l.s)), AssignTarget(env, l.s, right))
    ELSE RpnApply(rest, stack2, env, operator, l,
                  IF l.k = "Variable" THEN get_var(env, l.s) ELSE l, right)

\* `let right = match evaluation_stack.pop()` on the popped top, below
\* being the stack under it
RpnRight(rest, below, env, operator, top, right) ==
    IF right.k = "Unbound" THEN RpnReturn(Err(NonexistantVar(top.s)), env, below)
    ELSE IF below = <<>> THEN RpnReturn(Err(InvalidArithmaticExpression), env, below)
    ELSE RpnLeft(rest, Front(below), env, operator, Last(below), right)

\* the right operand handed on as it was popped, a name not looked up
RpnOperatorUnresolved(rest, stack, env, operator) ==
    IF stack = <<>> THEN RpnReturn(Err(InvalidArithmaticExpression), env, stack)
    ELSE RpnRight(rest, Front(stack), env, operator, Last(stack), Last(stack))

\* the Operator arm
RpnOperator(rest, stack, env, operator) ==
    IF stack = <<>> THEN RpnReturn(Err(InvalidArithmaticExpression), env, stack)
    ELSE RpnRight(rest, Front(stack), env, operator, Last(stack),
                  IF Last(stack).k = "Variable" THEN get_var(env, Last(stack).s)
                  ELSE Last(stack))

\* the Matrix arm: `evaluation_stack.push(self.evaluate(node.into())?)`
RpnMatrix(rest, stack, m) ==
    IF m.res.st # "Ok" THEN RpnReturn(m.res, m.env, stack)
    ELSE RpnLoop(rest, Append(stack, m.res.val), m.env)

\* `match node`
RpnNode(rest, stack, env, node) ==
    CASE node.k = "Operator" -> RpnOperator(rest, stack, env, node.s)
      [] node.k = "Number" -> RpnLoop(rest, Append(stack, Scalar(node.n)), env)
      [] node.k = "Variable" -> RpnLoop(rest, Append(stack, VariableVal(node.s)), env)
      [] node.k = "Matrix" -> RpnMatrix(rest, stack, evaluate(node, env))
      [] OTHER -> RpnReturn(Panic, env, stack)   \* unreachable!(): a nested ArithmaticExpr

\* `while let Some(node) = rpn_queue.pop()`
RpnLoop(rpn_queue, stack, env) ==
    IF rpn_queue = <<>> THEN RpnReturn(Ok(Unbound), env, stack)
    ELSE RpnNode(Front(rpn_queue), stack, env, Last(rpn_queue))

\* Ok(res) with the implicit `ans` update
Stored(ast, env, res) == [res |-> Ok(res), env |-> StoreAns(ast, env, res)]

\* the Matrix arm after its rows: Matrix::try_from_rows(res_mat)
MatrixResult(ast, env, t) ==
    IF ~t.ok THEN [res |-> Err(InconsistantMatrixWidth(t.a, t.b)), env |-> env]
    ELSE Stored(ast, env, MatrixVal(t.m))

\* the Matrix arm once its rows evaluated to r: a 1 x 1 matrix is a scalar
MatrixRows(ast, w, h, r) ==
    IF r.res.st # "Ok" THEN [res |-> r.res, env |-> r.env]
    ELSE IF w = 1 /\ h = 1 THEN Stored(ast, r.env, Scalar(r.res_mat[1][1]))
    ELSE MatrixResult(ast, r.env, try_from_rows(r.res_mat))

\* the Variable arm on the looked-up v
VariableResult(ast, env, v) ==
    IF v.k = "Unbound" THEN [res |-> Err(NonexistantVar(ast.s)), env |-> env]
    ELSE [res |-> Ok(v), env |-> env]

\* the result handling writing `ans` whatever the value and the flag are
ExprValueStoring(ast, env, res) == [res |-> Ok(res), env |-> assign_var(env, "ans", res)]

\* the ArithmaticExpr arm on the one value res left on the stack
ExprValue(ast, env, res) ==
    IF res.k = "Variable"
    THEN IF ast.print_result /\ get_var(env, res.s).k = "Unbound"
         THEN [res |-> Err(NonexistantVar(res.s)), env |-> env]
         ELSE [res |-> Ok(res), env |-> env]
    ELSE Stored(ast, env, res)

\* the ArithmaticExpr arm once the loop has returned l
ExprResult(ast, l) ==
    IF l.res.st # "Ok" THEN [res |-> l.res, env |-> l.env]
    ELSE IF Len(l.stack) # 1 THEN [res |-> Err(InvalidArithmaticExpression), env |-> l.env]
    ELSE ExprValue(ast, l.env, l.stack[1])

evaluate(ast, env) ==
    CASE ast.k = "Number" -> Stored(ast, env, Scalar(ast.n))
      [] ast.k = "Matrix" ->
           IF ast.rows = <<>> THEN Stored(ast, env, MatrixVal(Matrix_new))
           ELSE MatrixRows(ast, Len(ast.rows[1]), Len(ast.rows),
                           EvalRows(ast.rows, Len(ast.rows[1]), env, <<>>))
      [] ast.k = "Variable" -> VariableResult(ast, env, get_var(env, ast.s))
      [] ast.k = "ArithmaticExpr" -> ExprResult(ast, RpnLoop(ast.expr, <<>>, env))
      [] OTHER -> [res |-> Err(InvalidArithmaticExpression), env |-> env]

-----------------------------------------------------------------------------
(* The matrix library on its own: one operation applied to one matrix.     *)

\* the cell values of the matrices the library is exercised on
Cells == {Num(0), Num(1), Num(2)}

Shapes == (1..MaxDim) \X (1..MaxDim)

AllMatrices ==
    {Matrix_new} \cup
    UNION {{[data |-> d, shape |-> sh] : d \in [1..(sh[1] * sh[2]) -> Cells]} : sh \in Shapes}

ones_rect(nrows, ncols) ==
    [data |-> [i \in 1..(nrows * ncols) |-> One], shape |-> <<nrows, ncols>>]

\* the dividends a divisor is tried with: itself, the all-ones matrix of its
\* shape and a 1 x 2 row
Dividends(m) == {m, ones_rect(height(m), width(m)), ones_rect(1, 2)}

NoOut ==
    [panic |-> FALSE, some |-> FALSE, val |-> Matrix_new, lower |-> Matrix_new,
     upper |-> Matrix_new, permutations |-> <<>>, shift |-> 0, pivots |-> 0,
     rank |-> 0, num |-> Zero, res |-> NoResult, env |-> Engine_new]

InterpreterIdle ==
    /\ variables = Engine_new
    /\ before = variables
    /\ tokens = <<>>
    /\ prev = <<>>
    /\ result = NoResult
    /\ pc = "idle"
    /\ nstmts = 0

InitMatrix ==
    /\ InterpreterIdle
    /\ parsed = NoParse
    /\ mat \in AllMatrices
    /\ lhs = Matrix_new
    /\ op = "none"
    /\ out = NoOut

LibraryFrame == UNCHANGED <<variables, before, tokens, prev, parsed, result, pc, nstmts, mat>>

TryInvert ==
    /\ op = "none"
    /\ op' = "try_invert"
    /\ \E r \in {try_invert(mat)} : out' = [NoOut EXCEPT !.some = r.some, !.val = r.val]
    /\ UNCHANGED lhs
    /\ LibraryFrame

LuDecomp ==
    /\ op = "none"
    /\ op' = "lu_decomp"
    /\ \E r \in {lu_decomp(mat)} :
           out' = [NoOut EXCEPT !.panic = r.panic, !.lower = r.lower, !.upper = r.upper,
                                !.permutations = r.permutations, !.shift = r.shift,
                                !.pivots = r.pivots, !.rank = r.rank]
    /\ UNCHANGED lhs
    /\ LibraryFrame

Rank ==
    /\ op = "none"
    /\ op' = "rank"
    /\ \E r \in {rank(mat)} : out' = [NoOut EXCEPT !.panic = r.panic, !.rank = r.val]
    /\ UNCHANGED lhs
    /\ LibraryFrame

TryDet ==
    /\ op = "none"
    /\ op' = "try_det"
    /\ \E r \in {try_det(mat)} :
           out' = [NoOut EXCEPT !.panic = r.panic, !.some = r.some, !.num = r.val]
    /\ UNCHANGED lhs
    /\ LibraryFrame

Divide ==
    /\ op = "none"
    /\ op' = "try_div"
    /\ \E l \in Dividends(mat) :
          /\ lhs' = l
          /\ out' = [NoOut EXCEPT !.res = try_div(MatrixVal(l), MatrixVal(mat))]
    /\ LibraryFrame

NextMatrix == TryInvert \/ LuDecomp \/ Rank \/ TryDet \/ Divide

SpecMatrix == InitMatrix /\ [][NextMatrix]_vars

-----------------------------------------------------------------------------
(* RuntimeVal arithmetic on its own: one operation applied to two operands. *)

\* the sh[1] x sh[2] matrix with p on the diagonal, q above it and r below it
Banded(sh, p, q, r) ==
    [data |-> [i \in 1..(sh[1] * sh[2]) |->
                  LET row == (i - 1) \div sh[2]
                      col == (i - 1) % sh[2]
                  IN  IF row = col THEN Num(p) ELSE IF row < col THEN Num(q) ELSE Num(r)],
     shape |-> sh]

OperandMatrices ==
    {Matrix_new} \cup {Banded(sh, p, q, r) : sh \in Shapes, p \in 0..2, q \in 0..2, r \in 0..1}

\* the operands: scalars and matrices
Operands == {Scalar(c) : c \in Cells} \cup {MatrixVal(m) : m \in OperandMatrices}

\* lhs and mat hold the left and the right operand, both RuntimeVals
InitArith ==
    /\ InterpreterIdle
    /\ parsed = NoParse
    /\ lhs \in Operands
    /\ mat \in Operands
    /\ op = "none"
    /\ out = NoOut

Apply(name, res) ==
    /\ op = "none"
    /\ op' = name
    /\ out' = [NoOut EXCEPT !.res = res]
    /\ UNCHANGED lhs
    /\ LibraryFrame

TryAdd == \E r \in {try_add(lhs, mat)} : Apply("try_add", r)

TrySub == \E r \in {try_sub(lhs, mat)} : Apply("try_sub", r)

TryMul == \E r \in {try_mul(lhs, mat)} : Apply("try_mul", r)

TryDiv == \E r \in {try_div(lhs, mat)} : Apply("try_div", r)

NextArith == TryAdd \/ TrySub \/ TryMul \/ TryDiv

SpecArith == InitArith /\ [][NextArith]_vars

-----------------------------------------------------------------------------
(* The values the matrix library builds: constructors and operations.      *)

ones_square(size) == ones_rect(size, size)

\* the vectors holding each of 0..n-1 once
PermutationVectors(n) == {p \in [1..n -> 0..(n - 1)] : \A i, j \in 1..n : p[i] = p[j] => i = j}

\* what the constructors build for the sizes of the matrix m
Built(m) ==
    {Matrix_new, identity_square(height(m)), zeros_square(height(m)),
     zeros_rect(height(m), width(m)), ones_square(height(m)),
     ones_rect(height(m), width(m))}
    \cup {from_permutations_vector(p) : p \in PermutationVectors(height(m))}

\* the rows of m as a Vec<Vec<Scalar>>
RowsOf(m) == [r \in 1..height(m) |-> [c \in 1..width(m) |-> At(m, r - 1, c - 1)]]

\* the rows of m, and the same with one row a cell longer or shorter
RowsTried(m) ==
    {RowsOf(m)}
    \cup {[RowsOf(m) EXCEPT ![k] = Append(@, One)] : k \in 1..height(m)}
    \cup {[RowsOf(m) EXCEPT ![k] = Front(@)] : k \in 1..height(m)}

InitBuild ==
    /\ InterpreterIdle
    /\ parsed = NoParse
    /\ mat \in OperandMatrices
    /\ lhs = Matrix_new
    /\ op = "none"
    /\ out = NoOut

Construct ==
    /\ op = "none"
    /\ op' = "construct"
    /\ \E c \in Built(mat) : out' = [NoOut EXCEPT !.val = c]
    /\ UNCHANGED lhs
    /\ LibraryFrame

IdentityRect ==
    /\ op = "none"
    /\ op' = "identity_rect"
    /\ \E r \in {identity_rect(height(mat), width(mat))} :
           out' = [NoOut EXCEPT !.panic = r.panic, !.val = r.val]
    /\ UNCHANGED lhs
    /\ LibraryFrame

\* lhs holds the rows given to try_from_rows
FromRows ==
    /\ op = "none"
    /\ op' = "try_from_rows"
    /\ \E rows \in RowsTried(mat) :
          /\ lhs' = rows
          /\ \E t \in {try_from_rows(rows)} :
                 out' = [NoOut EXCEPT !.res = IF t.ok THEN Ok(MatrixVal(t.m))
                                               ELSE Err(InconsistantMatrixWidth(t.a, t.b))]
    /\ LibraryFrame

\* lhs holds the left operand of an arithmetic operation on two matrices
Arithmetic ==
    /\ op = "none"
    /\ op' = "arithmetic"
    /\ \E l \in OperandMatrices :
          /\ lhs' = l
          /\ \E r \in {try_add(MatrixVal(l), MatrixVal(mat)), try_sub(MatrixVal(l), MatrixVal(mat)),
                        try_mul(MatrixVal(l), MatrixVal(mat)), try_div(MatrixVal(l), MatrixVal(mat)),
                        Ok(MatrixVal(MatNeg(mat))), try_add(Scalar(One), MatrixVal(mat)),
                        try_div(Scalar(One), MatrixVal(mat))} :
                 out' = [NoOut EXCEPT !.res = r]
    /\ LibraryFrame

NextBuild == Construct \/ IdentityRect \/ FromRows \/ Arithmetic \/ LuDecomp \/ TryInvert

SpecBuild == InitBuild /\ [][NextBuild]_vars

-----------------------------------------------------------------------------
(* Linear algebra the library is judged against.                           *)

\* the matrix without row r and column c
Minor(m, r, c) ==
    LET n == height(m) - 1
        w == width(m) - 1
    IN  [data |-> [i \in 1..(n * w) |->
                      LET rr == (i - 1) \div w
                          cc == (i - 1) % w
                      IN  At(m, IF rr < r THEN rr ELSE rr + 1, IF cc < c THEN cc ELSE cc + 1)],
         shape |-> <<n, w>>]

RECURSIVE Det(_)
RECURSIVE DetRow(_, _, _)
\* Laplace expansion along row 0, columns c..width-1
DetRow(m, c, acc) ==
    IF c >= width(m) THEN acc
    ELSE LET term == FMul(At(m, 0, c), Det(Minor(m, 0, c)))
         IN  DetRow(m, c + 1, IF c % 2 = 0 THEN FAdd(acc, term) ELSE FSub(acc, term))

\* the determinant of a square matrix; 1 for the empty matrix
Det(m) == IF height(m) = 0 THEN One ELSE DetRow(m, 0, Zero)

Singular(m) == is_square(m) /\ Det(m) = Zero

\* the square submatrix on the rows R and columns C (sets of 0-based indices)
RECURSIVE SetToSeq(_)
SetToSeq(S) == IF S = {} THEN <<>> ELSE LET x == MinOf(S) IN <<x>> \o SetToSeq(S \ {x})

SubMatrix(m, R, C) ==
    LET rs == SetToSeq(R)
        cs == SetToSeq(C)
        k  == Len(rs)
    IN  [data |-> [i \in 1..(k * k) |-> At(m, rs[((i - 1) \div k) + 1], cs[((i - 1) % k) + 1])],
         shape |-> <<k, k>>]

\* the rank: the size of the largest square submatrix with a nonzero determinant
TrueRank(m) ==
    LET sizes == {k \in 0..Min(height(m), width(m)) :
                    \E R \in SUBSET (0..(height(m) - 1)) :
                    \E C \in SUBSET (0..(width(m) - 1)) :
                       /\ Cardinality(R) = k
                       /\ Cardinality(C) = k
                       /\ Det(SubMatrix(m, R, C)) # Zero}
    IN  CHOOSE k \in sizes : \A j \in sizes : j <= k

UnitLowerTriangular(m) ==
    /\ is_square(m)
    /\ \A r \in 0..(height(m) - 1) : \A c \in 0..(width(m) - 1) :
          /\ (r = c => At(m, r, c) = One)
          /\ (c > r => At(m, r, c) = Zero)

\* the column of the first nonzero cell of row r, width(m) for a zero row
Lead(m, r) ==
    LET nz == {c \in 0..(width(m) - 1) : At(m, r, c) # Zero}
    IN  IF nz = {} THEN width(m) ELSE MinOf(nz)

\* leading cells move strictly right going down; zero rows are at the bottom
RowEchelon(m) ==
    \A r \in 1..(height(m) - 1) :
        Lead(m, r) = width(m) \/ Lead(m, r) > Lead(m, r - 1)

-----------------------------------------------------------------------------
(* Statements: the token streams the interpreter is given.                 *)

N(n) == NumericLiteral(n)

I(name) == Identifier(name)

EOF == Tok("EndOfFile")

Lits == 1..MaxNum

Vars == {"x", "y", "z"}

ArithTokens == {"Plus", "Minus", "Asterisk", "Slash"}

\* a o1 b o2 c
Binary3(a, o1, b, o2, c) == <<N(a), Tok(o1), N(b), Tok(o2), N(c), EOF>>

\* a - b * c - d
Quad(a, b, c, d) ==
    <<N(a), Tok("Minus"), N(b), Tok("Asterisk"), N(c), Tok("Minus"), N(d), EOF>>

ArithStmts ==
    {Binary3(a, o1, b, o2, c) : a \in Lits, b \in Lits, c \in Lits,
                                o1 \in ArithTokens, o2 \in ArithTokens}
    \cup {Quad(a, b, c, d) : a \in Lits, b \in Lits, c \in Lits, d \in Lits}

\* name = v
AssignLit(name, v) == <<I(name), Tok("Equal"), N(v), EOF>>

\* name = other
AssignVar(name, other) == <<I(name), Tok("Equal"), I(other), EOF>>

\* name + 1
PlusOne(name) == <<I(name), Tok("Plus"), N(1), EOF>>

\* name
Read(name) == <<I(name), EOF>>

\* ( name = v ) + other
ParenAssignPlus(name, v, other) ==
    <<Tok("OpenParen"), I(name), Tok("Equal"), N(v), Tok("CloseParen"), Tok("Plus"),
      I(other), EOF>>

\* [ name = v , other ]
CellAssign(name, v, other) ==
    <<Tok("OpenBracket"), I(name), Tok("Equal"), N(v), Tok("Comma"), I(other),
      Tok("CloseBracket"), EOF>>

\* target = name + other
AssignSum(target, name, other) ==
    <<I(target), Tok("Equal"), I(name), Tok("Plus"), I(other), EOF>>

VarStmts ==
    {AssignLit(v, a) : v \in Names, a \in Lits}
    \cup {AssignVar(v, w) : v \in Vars, w \in Vars}
    \cup {PlusOne(v) : v \in Names}
    \cup {Read(v) : v \in Names}
    \cup {ParenAssignPlus(v, a, w) : v \in Vars, a \in Lits, w \in Vars}
    \cup {CellAssign(v, a, w) : v \in Vars, a \in Lits, w \in Vars}
    \cup {AssignSum(t, v, w) : t \in Vars, v \in Vars, w \in Vars}

\* the tokens of one row of lens[r] cells, the cells numbered on from `from`
RECURSIVE RowTokens(_, _)
RowTokens(len, from) ==
    IF len = 0 THEN <<>>
    ELSE IF len = 1 THEN <<N(from)>>
    ELSE <<N(from), Tok("Comma")>> \o RowTokens(len - 1, from + 1)

RECURSIVE RowsTokens(_, _)
RowsTokens(lens, from) ==
    IF lens = <<>> THEN <<>>
    ELSE IF Len(lens) = 1 THEN RowTokens(lens[1], from)
    ELSE RowTokens(lens[1], from) \o <<Tok("SemiColon")>>
         \o RowsTokens(Tail(lens), from + lens[1])

\* [ c1, c2; c3, ... ] with Len(lens) rows, row r of lens[r] cells, the
\* cells being the literals 1, 2, 3, ... in row-major order
MatrixLiteral(lens) ==
    <<Tok("OpenBracket")>> \o RowsTokens(lens, 1) \o <<Tok("CloseBracket"), EOF>>

RowLens == UNION {[1..h -> 1..MaxRowLen] : h \in 1..MaxRows}

MatrixStmts == {MatrixLiteral(lens) : lens \in RowLens}

LP == Tok("OpenParen")

RP == Tok("CloseParen")

LB == Tok("OpenBracket")

RB == Tok("CloseBracket")

Comma == Tok("Comma")

SemiColon == Tok("SemiColon")

Equal == Tok("Equal")

\* [ a , , b ]
DoubleComma(a, b) == <<LB, N(a), Comma, Comma, N(b), RB, EOF>>

\* [ a , b , ]
TrailingComma(a, b) == <<LB, N(a), Comma, N(b), Comma, RB, EOF>>

\* [ , a ]
LeadingComma(a) == <<LB, Comma, N(a), RB, EOF>>

\* [ a b ]
NoComma(a, b) == <<LB, N(a), N(b), RB, EOF>>

CommaStmts ==
    {DoubleComma(a, b) : a \in Lits, b \in Lits}
    \cup {TrailingComma(a, b) : a \in Lits, b \in Lits}
    \cup {LeadingComma(a) : a \in Lits}
    \cup {NoComma(a, b) : a \in Lits, b \in Lits}

\* [ [ a , b ] , c ]
NestedFirst(a, b, c) == <<LB, LB, N(a), Comma, N(b), RB, Comma, N(c), RB, EOF>>

\* [ c , [ a , b ] ]
NestedLast(a, b, c) == <<LB, N(c), Comma, LB, N(a), Comma, N(b), RB, RB, EOF>>

\* [ [ ] , c ]
NestedEmpty(c) == <<LB, LB, RB, Comma, N(c), RB, EOF>>

\* [ [ ] ]
NestedEmptyAlone == <<LB, LB, RB, RB, EOF>>

\* [ [ a ] ]
NestedSingle(a) == <<LB, LB, N(a), RB, RB, EOF>>

\* [ [ a , b ] c ]
NestedSpaced(a, b, c) == <<LB, LB, N(a), Comma, N(b), RB, N(c), RB, EOF>>

\* [ [ a , b ] o c ]
NestedExpr(a, b, o, c) == <<LB, LB, N(a), Comma, N(b), RB, Tok(o), N(c), RB, EOF>>

\* [ name ]
CellRead(name) == <<LB, I(name), RB, EOF>>

\* [ a , name ]
CellReadLast(a, name) == <<LB, N(a), Comma, I(name), RB, EOF>>

\* [ name = [ a , b ] , c ]
CellAssignMatrix(name, a, b, c) ==
    <<LB, I(name), Equal, LB, N(a), Comma, N(b), RB, Comma, N(c), RB, EOF>>

NestedStmts ==
    {NestedFirst(a, b, c) : a \in Lits, b \in Lits, c \in Lits}
    \cup {NestedLast(a, b, c) : a \in Lits, b \in Lits, c \in Lits}
    \cup {NestedEmpty(c) : c \in Lits}
    \cup {NestedEmptyAlone}
    \cup {NestedSingle(a) : a \in Lits}
    \cup {NestedSpaced(a, b, c) : a \in Lits, b \in Lits, c \in Lits}
    \cup {NestedExpr(a, b, o, c) : a \in Lits, b \in Lits, o \in ArithTokens, c \in Lits}
    \cup {CellRead(v) : v \in Names}
    \cup {CellReadLast(a, v) : a \in Lits, v \in Names}
    \cup {CellAssignMatrix(v, a, b, c) : v \in Vars, a \in Lits, b \in Lits, c \in Lits}

\* [ ]
EmptyLiteral == <<LB, RB, EOF>>

\* [ a ]
SingleCell(a) == <<LB, N(a), RB, EOF>>

\* [ a , b ; name ]
RaggedRead(a, b, name) == <<LB, N(a), Comma, N(b), SemiColon, I(name), RB, EOF>>

\* [ name ; a , b ]
ReadRagged(name, a, b) == <<LB, I(name), SemiColon, N(a), Comma, N(b), RB, EOF>>

\* [ name = v ; a , b ]
AssignRagged(name, v, a, b) ==
    <<LB, I(name), Equal, N(v), SemiColon, N(a), Comma, N(b), RB, EOF>>

\* [ a , b ; name = v ]
RaggedAssign(a, b, name, v) ==
    <<LB, N(a), Comma, N(b), SemiColon, I(name), Equal, N(v), RB, EOF>>

RaggedStmts ==
    {RaggedRead(a, b, v) : a \in Lits, b \in Lits, v \in Vars}
    \cup {ReadRagged(v, a, b) : v \in Vars, a \in Lits, b \in Lits}
    \cup {AssignRagged(v, c, a, b) : v \in Vars, c \in Lits, a \in Lits, b \in Lits}
    \cup {RaggedAssign(a, b, v, c) : a \in Lits, b \in Lits, v \in Vars, c \in Lits}

\* ( a o b
OpenGroup(a, o, b) == <<LP, N(a), Tok(o), N(b), EOF>>

\* a o (
OperatorOpen(a, o) == <<N(a), Tok(o), LP, EOF>>

\* ( ( a
OpenTwice(a) == <<LP, LP, N(a), EOF>>

\* (
OpenAlone == <<LP, EOF>>

\* ( (
OpenOpen == <<LP, LP, EOF>>

\* the empty statement
EmptyStmt == <<EOF>>

\* a o b )
CloseAlone(a, o, b) == <<N(a), Tok(o), N(b), RP, EOF>>

\* ( a ) )
CloseTwice(a) == <<LP, N(a), RP, RP, EOF>>

\* a o1 ( b o2 c ) o3 d
Grouped(a, o1, b, o2, c, o3, d) ==
    <<N(a), Tok(o1), LP, N(b), Tok(o2), N(c), RP, Tok(o3), N(d), EOF>>

\* a o1 name o3 d
Ungrouped(a, o1, name, o3, d) == <<N(a), Tok(o1), I(name), Tok(o3), N(d), EOF>>

\* ( a + b ) * c
SumTimes(a, b, c) == <<LP, N(a), Tok("Plus"), N(b), RP, Tok("Asterisk"), N(c), EOF>>

\* a * c + b * c
Distributed(a, b, c) ==
    <<N(a), Tok("Asterisk"), N(c), Tok("Plus"), N(b), Tok("Asterisk"), N(c), EOF>>

\* a * ( b + c )
TimesSum(a, b, c) == <<N(a), Tok("Asterisk"), LP, N(b), Tok("Plus"), N(c), RP, EOF>>

ParenStmts ==
    {OpenGroup(a, o, b) : a \in Lits, o \in ArithTokens, b \in Lits}
    \cup {OperatorOpen(a, o) : a \in Lits, o \in ArithTokens}
    \cup {OpenTwice(a) : a \in Lits}
    \cup {OpenAlone, OpenOpen, EmptyStmt}
    \cup {CloseAlone(a, o, b) : a \in Lits, o \in ArithTokens, b \in Lits}
    \cup {CloseTwice(a) : a \in Lits}
    \cup {Grouped(a, o1, 2, o2, 3, o3, 4) :
             a \in Lits, o1 \in ArithTokens, o2 \in ArithTokens, o3 \in ArithTokens}
    \cup {SumTimes(a, b, c) : a \in Lits, b \in Lits, c \in Lits}
    \cup {Distributed(a, b, c) : a \in Lits, b \in Lits, c \in Lits}
    \cup {TimesSum(a, b, c) : a \in Lits, b \in Lits, c \in Lits}

\* name = other = v
AssignChain(name, other, v) == <<I(name), Equal, I(other), Equal, N(v), EOF>>

\* a = b
LitAssign(a, b) == <<N(a), Equal, N(b), EOF>>

\* a + name = b
SumAssign(a, name, b) == <<N(a), Tok("Plus"), I(name), Equal, N(b), EOF>>

\* [ a , b ] = c
MatrixAssign(a, b, c) == <<LB, N(a), Comma, N(b), RB, Equal, N(c), EOF>>

\* ( name = v ) + a = b
ParenAssignPlusAssign(name, v, a, b) ==
    <<LP, I(name), Equal, N(v), RP, Tok("Plus"), N(a), Equal, N(b), EOF>>

\* name = [ a , b ]
AssignMatrix(name, a, b) == <<I(name), Equal, LB, N(a), Comma, N(b), RB, EOF>>

\* a = name
LitAssignVar(a, name) == <<N(a), Equal, I(name), EOF>>

\* name = [ a , b ] + [ a , b , c ]
AssignMismatch(name, a, b, c) ==
    <<I(name), Equal, LB, N(a), Comma, N(b), RB, Tok("Plus"),
      LB, N(a), Comma, N(b), Comma, N(c), RB, EOF>>

\* name = [ a , b ] / [ a , b ]
AssignNoninvertible(name, a, b) ==
    <<I(name), Equal, LB, N(a), Comma, N(b), RB, Tok("Slash"),
      LB, N(a), Comma, N(b), RB, EOF>>

\* name = [ [ a , b ] , c ]
AssignNested(name, a, b, c) ==
    <<I(name), Equal, LB, LB, N(a), Comma, N(b), RB, Comma, N(c), RB, EOF>>

\* name = ( inner = v ) + other
AssignParenAssignPlus(name, inner, v, other) ==
    <<I(name), Equal, LP, I(inner), Equal, N(v), RP, Tok("Plus"), I(other), EOF>>

AssignStmts ==
    {AssignChain(v, w, a) : v \in Vars, w \in Vars, a \in Lits}
    \cup {LitAssign(a, b) : a \in Lits, b \in Lits}
    \cup {SumAssign(a, v, b) : a \in Lits, v \in Vars, b \in Lits}
    \cup {MatrixAssign(a, b, c) : a \in Lits, b \in Lits, c \in Lits}
    \cup {LitAssignVar(a, v) : a \in Lits, v \in Vars}
    \cup {AssignMatrix(v, a, b) : v \in Names, a \in Lits, b \in Lits}
    \cup {ParenAssignPlusAssign(v, a, 1, b) : v \in Vars, a \in Lits, b \in Lits}
    \cup {AssignMismatch(v, a, b, c) : v \in Vars, a \in Lits, b \in Lits, c \in Lits}
    \cup {AssignNoninvertible(v, a, b) : v \in Vars, a \in Lits, b \in Lits}
    \cup {AssignNested(v, a, b, c) : v \in Vars, a \in Lits, b \in Lits, c \in Lits}
    \cup {AssignParenAssignPlus(v, w, a, u) : v \in Vars, w \in Vars, a \in Lits, u \in Vars}

\* a
NumberStmt(a) == <<N(a), EOF>>

\* ( a )
ParenNumber(a) == <<LP, N(a), RP, EOF>>

\* ( name )
ParenRead(name) == <<LP, I(name), RP, EOF>>

\* [ name = v ] + a
CellAssignPlus(name, v, a) == <<LB, I(name), Equal, N(v), RB, Tok("Plus"), N(a), EOF>>

\* [ a , t ]
HandedBack(a, t) == <<LB, N(a), Comma, Tok(t), RB, EOF>>

\* tokens the matrix loop gives back to the expression parser
HandedBackStmts ==
    {HandedBack(a, t) : a \in Lits, t \in {"CloseCurly", "EndOfLine", "Asterisk", "CloseParen"}}

OperandStmts ==
    {NumberStmt(a) : a \in Lits}
    \cup {ParenNumber(a) : a \in Lits}
    \cup {ParenRead(v) : v \in Names}
    \cup {CellAssignPlus(v, a, b) : v \in Vars, a \in Lits, b \in Lits}

Program ==
    ArithStmts \cup VarStmts \cup MatrixStmts \cup {EmptyLiteral}
    \cup {SingleCell(a) : a \in Lits} \cup CommaStmts
    \cup NestedStmts \cup RaggedStmts \cup ParenStmts \cup AssignStmts
    \cup OperandStmts
    \cup HandedBackStmts

\* environments earlier statements of a session leave behind
SomeEnvs ==
    {Engine_new,
     [Engine_new EXCEPT !["x"] = Scalar(Num(2))],
     [Engine_new EXCEPT !["x"] = Scalar(Num(2)), !["y"] = Scalar(Num(3)),
                        !["ans"] = Scalar(Num(1))],
     [Engine_new EXCEPT !["x"] = MatrixVal(ones_rect(1, 2)), !["y"] = Scalar(Num(3))]}

\* the statements of a session
SessionStmts ==
    {AssignLit("x", a) : a \in Lits}
    \cup {AssignLit("ans", 1), AssignVar("y", "x"), PlusOne("x"), Read("x"), Read("y"),
          Read("ans"), <<N(2), EOF>>, MatrixLiteral(<<2>>), AssignSum("y", "x", "z"),
          AssignMatrix("x", 1, 2)}

-----------------------------------------------------------------------------
(* The interpreter: a line is read, parsed, and evaluated.                 *)

LibraryIdle ==
    /\ mat = Matrix_new
    /\ lhs = Matrix_new
    /\ op = "none"
    /\ out = NoOut

InterpreterFrame == UNCHANGED <<mat, lhs, op, out>>

\* a session: Engine::new(), then statements one after the other
Init ==
    /\ InterpreterIdle
    /\ parsed = NoParse
    /\ LibraryIdle

\* one statement, given to an engine in a state a session can leave it in
InitStmt ==
    /\ variables \in SomeEnvs
    /\ before = variables
    /\ tokens \in Program
    /\ prev = <<>>
    /\ parsed = NoParse
    /\ result = NoResult
    /\ pc = "read"
    /\ nstmts = 1
    /\ LibraryIdle

ReadLine(t) ==
    /\ pc \in {"idle", "done"}
    /\ nstmts < MaxStmts
    /\ tokens' = t
    /\ prev' = tokens
    /\ parsed' = NoParse
    /\ result' = NoResult
    /\ pc' = "read"
    /\ nstmts' = nstmts + 1
    /\ UNCHANGED <<variables, before>>
    /\ InterpreterFrame

Parse ==
    /\ pc = "read"
    /\ parsed' = Parser_parse(tokens)
    /\ pc' = CASE parsed'.st = "Ok" -> "parsed"
               [] parsed'.st = "Err" -> "done"
               [] OTHER -> "crashed"
    /\ UNCHANGED <<variables, before, tokens, prev, result, nstmts>>
    /\ InterpreterFrame

Evaluate ==
    /\ pc = "parsed"
    /\ \E e \in {evaluate(parsed.node, variables)} :
           /\ variables' = e.env
           /\ result' = e.res
           /\ pc' = IF e.res.st = "Panic" THEN "crashed" ELSE "done"
    /\ before' = variables
    /\ UNCHANGED <<tokens, prev, parsed, nstmts>>
    /\ InterpreterFrame

Next == (\E t \in SessionStmts : ReadLine(t)) \/ Parse \/ Evaluate

Spec == Init /\ [][Next]_vars

NextStmt == Parse \/ Evaluate

SpecStmt == InitStmt /\ [][NextStmt]_vars

\* the node as evaluate leaves its own copy: the queue popped to the end
DrainedNode(ast) == [ast EXCEPT !.expr = <<>>]

\* the node a caller still holds after evaluate(ast): evaluate takes its
\* ASTNode by value and pops its own rpn_queue, so the caller's copy is the
\* node as it was parsed
KeptNode(ast) == ast

\* a second evaluation of the statement's node against the environment the
\* first one started from; out holds its result and its environment
Reevaluate ==
    /\ pc = "done"
    /\ parsed.st = "Ok"
    /\ op = "none"
    /\ op' = "evaluate"
    /\ \E e \in {evaluate(KeptNode(parsed.node), before)} :
           out' = [NoOut EXCEPT !.res = e.res, !.env = e.env]
    /\ UNCHANGED <<variables, before, tokens, prev, parsed, result, pc, nstmts, mat, lhs>>

NextTwice == Parse \/ Evaluate \/ Reevaluate

SpecTwice == InitStmt /\ [][NextTwice]_vars

\* the tokens every statement is made of: a number, a name, an operator of
\* each precedence, and the punctuation of groups and matrices
Alphabet == {N(1), I("x"), Tok("Plus"), Tok("Slash"), Equal, LP, RP, LB, RB, Comma, SemiColon}

\* every token stream of at most MaxTokens tokens, closed by end-of-input
AnyStmts == {s \o <<EOF>> : s \in UNION {[1..n -> Alphabet] : n \in 0..MaxTokens}}

\* a fresh engine, and one where the name of the alphabet holds a matrix
AnyEnvs == {Engine_new, [Engine_new EXCEPT !["x"] = MatrixVal(ones_rect(1, 2))]}

\* any statement at all, given to the engine
InitAny ==
    /\ variables \in AnyEnvs
    /\ before = variables
    /\ tokens \in AnyStmts
    /\ prev = <<>>
    /\ parsed = NoParse
    /\ result = NoResult
    /\ pc = "read"
    /\ nstmts = 1
    /\ LibraryIdle

SpecAny == InitAny /\ [][NextStmt]_vars

-----------------------------------------------------------------------------
(* Properties of statements: precedence, associativity, assignment.        *)

\* the statement has run to its end: evaluated, refused, or crashed
Finished == pc \in {"done", "crashed"}

\* the value of `a o b` for the operator token o
Value(o, a, b) ==
    CASE o = "Plus" -> FAdd(a, b)
      [] o = "Minus" -> FSub(a, b)
      [] o = "Asterisk" -> FMul(a, b)
      [] o = "Slash" -> FDiv(a, b)

Additive == {"Plus", "Minus"}

Multiplicative == {"Asterisk", "Slash"}

\* the statement read is `a o1 b o2 c`
IsBinary3 ==
    /\ Len(tokens) = 6
    /\ tokens = Binary3(tokens[1].n, tokens[2].k, tokens[3].n, tokens[4].k, tokens[5].n)

\* the statement read is `a - b * c - d`
IsQuad ==
    /\ Len(tokens) = 8
    /\ tokens = Quad(tokens[1].n, tokens[3].n, tokens[5].n, tokens[7].n)

\* the operand at position i of the statement read
Operand(i) == Num(tokens[i].n)

\* C1: a statement `a o1 b o2 c` with o1 additive and o2 multiplicative
\* evaluates to a o1 (b o2 c), and `a o2 b o1 c` evaluates to (a o2 b) o1 c.
C1_Precedence ==
    (IsBinary3 /\ Finished) =>
       /\ (tokens[2].k \in Additive /\ tokens[4].k \in Multiplicative) =>
             result = Ok(Scalar(Value(tokens[2].k, Operand(1),
                                      Value(tokens[4].k, Operand(3), Operand(5)))))
       /\ (tokens[2].k \in Multiplicative /\ tokens[4].k \in Additive) =>
             result = Ok(Scalar(Value(tokens[4].k,
                                      Value(tokens[2].k, Operand(1), Operand(3)),
                                      Operand(5))))

\* 2+3*4 has been evaluated, to 14
C1_Witness ==
    /\ tokens = Binary3(2, "Plus", 3, "Asterisk", 4)
    /\ pc = "done"
    /\ result = Ok(Scalar(Num(14)))

\* C2: operators of equal precedence group to the left: `a o1 b o2 c` with
\* o1 and o2 both additive or both multiplicative evaluates to
\* (a o1 b) o2 c, and `a - b * c - d` to (a - (b * c)) - d.
C2_LeftAssociative ==
    /\ (IsBinary3 /\ Finished
          /\ \E G \in {Additive, Multiplicative} : tokens[2].k \in G /\ tokens[4].k \in G) =>
          result = Ok(Scalar(Value(tokens[4].k,
                                   Value(tokens[2].k, Operand(1), Operand(3)),
                                   Operand(5))))
    /\ (IsQuad /\ Finished) =>
          result = Ok(Scalar(FSub(FSub(Operand(1), FMul(Operand(3), Operand(5))),
                                  Operand(7))))

\* 4 - 2 - 1 has been evaluated, to 4 - (2 - 1) = 3
C2_RightGrouped ==
    /\ tokens = Binary3(4, "Minus", 2, "Minus", 1)
    /\ pc = "done"
    /\ result = Ok(Scalar(Num(3)))

\* C3: a statement whose evaluation returns an EvaluationError leaves the
\* environment as it was before the statement.
C3_ErrorAtomicity ==
    (pc = "done" /\ result.st = "Err") => variables = before

\* (y = 3) + z with z unbound: the error is returned and y stays bound
C3_BindingSurvives ==
    /\ tokens = ParenAssignPlus("y", 3, "z")
    /\ pc = "done"
    /\ result = Err(NonexistantVar("z"))
    /\ before["y"] = Unbound
    /\ variables["y"] = Scalar(Num(3))

Ragged(lens) == \E r \in 2..Len(lens) : lens[r] # lens[r - 1]

\* C10: a matrix literal with a row whose cell count differs from the row
\* before it is refused by the parser with DimensionsMismatch, so every
\* Matrix node the parser returns has rows of equal length.
C10_ParseTimeShape ==
    /\ \A lens \in RowLens :
          (tokens = MatrixLiteral(lens) /\ pc # "read" /\ Ragged(lens))
             => parsed.st = "Err" /\ parsed.err = "DimensionsMismatch"
    /\ (parsed.st = "Ok" /\ parsed.node.k = "Matrix")
          => \A r \in 1..Len(parsed.node.rows) :
                Len(parsed.node.rows[r]) = Len(parsed.node.rows[1])

\* [1,2;3,4,5] is parsed into rows of 2 and 3 cells and refused only by the
\* evaluation, with InconsistantMatrixWidth(2, 3)
C10_RaggedParsed ==
    /\ tokens = MatrixLiteral(<<2, 3>>)
    /\ pc = "done"
    /\ parsed.st = "Ok"
    /\ parsed.node.k = "Matrix"
    /\ Len(parsed.node.rows[1]) = 2
    /\ Len(parsed.node.rows[2]) = 3
    /\ result = Err(InconsistantMatrixWidth(2, 3))

-----------------------------------------------------------------------------
(* Properties of the matrix library.                                       *)

\* a square matrix with cells and a nonzero determinant
Invertible(m) == is_square(m) /\ height(m) > 0 /\ Det(m) # Zero

\* C5: for an invertible matrix M, try_invert(M) is Some(N) with M x N the
\* identity, and M / M is the identity.
C5_InversionCorrect ==
    /\ (op = "try_invert" /\ Invertible(mat)) =>
          /\ out.some
          /\ MatMul(mat, out.val) = identity_square(height(mat))
    /\ (op = "try_div" /\ lhs = mat /\ Invertible(mat)) =>
          out.res = Ok(MatrixVal(identity_square(height(mat))))

\* [[0,1],[1,0]] is its own inverse; try_invert returns the identity
C5_SwapLost ==
    /\ op = "try_invert"
    /\ mat = [data |-> <<Zero, One, One, Zero>>, shape |-> <<2, 2>>]
    /\ out.some
    /\ out.val = identity_square(2)

\* C6: try_invert returns None exactly when the matrix is non-square or
\* singular, and dividing by a same-shape singular matrix yields
\* NoninvertibleDivisorMatrix.
C6_SingularityDetection ==
    /\ op = "try_invert" => (~out.some <=> (~is_square(mat) \/ Det(mat) = Zero))
    /\ (op = "try_div" /\ get_shape(lhs) = get_shape(mat) /\ Singular(mat))
          => out.res = Err(NoninvertibleDivisorMatrix)

\* the empty matrix, whose determinant try_det gives as 1, is not inverted
C6_EmptyNotInverted ==
    /\ op = "try_invert"
    /\ mat = Matrix_new
    /\ ~out.some
    /\ try_det(mat) = [panic |-> FALSE, some |-> TRUE, val |-> One]

\* C7: lu_decomp(A) returns L unit lower-triangular, U in row-echelon form
\* and a permutation vector whose matrix P gives P x A = L x U.
C7_LuFactorisation ==
    op = "lu_decomp" =>
       /\ ~out.panic
       /\ UnitLowerTriangular(out.lower)
       /\ RowEchelon(out.upper)
       /\ MatMul(from_permutations_vector(out.permutations), mat)
             = MatMul(out.lower, out.upper)

\* [[0,1],[0,2]]: lu_decomp returns, with L the identity and U = [[0,1],[0,0]]
C7_WrongFactors ==
    /\ op = "lu_decomp"
    /\ mat = [data |-> <<Zero, One, Zero, Num(2)>>, shape |-> <<2, 2>>]
    /\ ~out.panic
    /\ out.lower = identity_square(2)
    /\ out.upper = [data |-> <<Zero, One, Zero, Zero>>, shape |-> <<2, 2>>]
    /\ MatMul(from_permutations_vector(out.permutations), mat)
          # MatMul(out.lower, out.upper)

\* C8: for a matrix of any shape rank() returns min(height, width - shift),
\* which is the number of pivots found and the rank of the matrix.
C8_Rank ==
    /\ op = "rank" => ~out.panic /\ out.rank = TrueRank(mat)
    /\ op = "lu_decomp" =>
          /\ ~out.panic
          /\ out.rank = Min(height(mat), width(mat) - out.shift)
          /\ out.rank = out.pivots
          /\ out.rank = TrueRank(mat)

\* rank() of the 2 x 1 matrix [[1],[1]] panics
C8_TallPanics ==
    /\ op = "rank"
    /\ mat = [data |-> <<One, One>>, shape |-> <<2, 1>>]
    /\ out.panic

\* C9: try_det is None for a non-square matrix; for a square one it is the
\* product of the diagonal of lu_decomp's U, 1 for [[1,0],[0,1]] and 0 for
\* every rank-deficient matrix.
C9_Determinant ==
    op = "try_det" =>
       /\ ~out.panic
       /\ out.some <=> is_square(mat)
       /\ out.some => out.num = DiagProduct(lu_decomp(mat).upper, 0, One)
       /\ mat = identity_square(2) => out.num = One
       /\ (is_square(mat) /\ TrueRank(mat) < height(mat)) => out.num = Zero

\* try_det of [[0,1],[1,0]] panics
C9_SwapPanics ==
    /\ op = "try_det"
    /\ mat = [data |-> <<Zero, One, One, Zero>>, shape |-> <<2, 2>>]
    /\ out.panic

-----------------------------------------------------------------------------
(* Properties of statements: matrix literals.                              *)

\* the statement has been through the parser
Parsed == pc # "read"

\* the statement read is `[ a , , b ]`
IsDoubleComma ==
    /\ Len(tokens) = 7
    /\ tokens = DoubleComma(tokens[2].n, tokens[5].n)

\* C11: a matrix literal with two commas and no expression between them, as
\* `[1,,2]`, is refused by the parser with EmptyMatrixElement.
C11_EmptyMatrixElement ==
    (IsDoubleComma /\ Parsed) => (parsed.st = "Err" /\ parsed.err = "EmptyMatrixElement")

\* [1,,2] is parsed into the one row 1, 2 and evaluates to a 1 x 2 matrix
C11_CommaSkipped ==
    /\ tokens = DoubleComma(1, 2)
    /\ pc = "done"
    /\ parsed.st = "Ok"
    /\ parsed.node.rows = <<<<NumberNode(1), NumberNode(2)>>>>
    /\ result = Ok(MatrixVal([data |-> <<Num(1), Num(2)>>, shape |-> <<1, 2>>]))

\* the statement read is `[ [ a , b ] , c ]`
IsNestedFirst ==
    /\ Len(tokens) = 10
    /\ tokens = NestedFirst(tokens[3].n, tokens[5].n, tokens[8].n)

\* the statement read is `[ c , [ a , b ] ]`
IsNestedLast ==
    /\ Len(tokens) = 10
    /\ tokens = NestedLast(tokens[5].n, tokens[7].n, tokens[2].n)

\* the statement read is `[ [ ] , c ]` or `[ [ ] ]`
IsNestedEmpty ==
    \/ Len(tokens) = 7 /\ tokens = NestedEmpty(tokens[5].n)
    \/ tokens = NestedEmptyAlone

\* the statement read is `[ [ a , b ] o c ]`
IsNestedExpr ==
    /\ Len(tokens) = 10
    /\ tokens[7].k \in ArithTokens
    /\ tokens = NestedExpr(tokens[3].n, tokens[5].n, tokens[7].k, tokens[8].n)

\* the statement read is `[ name ]` or `[ a , name ]`, name bound to a matrix
IsCellMatrixRead ==
    \/ /\ Len(tokens) = 4
       /\ tokens = CellRead(tokens[2].s)
       /\ before[tokens[2].s].k = "Matrix"
    \/ /\ Len(tokens) = 6
       /\ tokens = CellReadLast(tokens[2].n, tokens[4].s)
       /\ before[tokens[4].s].k = "Matrix"

\* the statement read is `[ name = [ a , b ] , c ]`
IsCellAssignMatrix ==
    /\ Len(tokens) = 12
    /\ tokens = CellAssignMatrix(tokens[2].s, tokens[5].n, tokens[7].n, tokens[10].n)

\* a cell of a matrix is a scalar
IsScalarCell(c) == DOMAIN c = {"num", "den"}

\* every cell of the RuntimeVal v is a scalar
ScalarCells(v) == v.k = "Matrix" => \A i \in 1..Len(v.m.data) : IsScalarCell(v.m.data[i])

\* C12: a matrix literal with a cell that evaluates to a Matrix (a nested
\* literal, an empty nested literal, an expression with a matrix value, a
\* variable bound to a matrix) fails with NestedMatrices, and every cell of a
\* Matrix value, returned or bound, is a scalar.
C12_NestedMatrices ==
    /\ (Finished /\ (IsNestedFirst \/ IsNestedLast \/ IsNestedEmpty \/ IsNestedExpr
                        \/ IsCellMatrixRead \/ IsCellAssignMatrix))
          => result = Err(NestedMatrices)
    /\ ScalarCells(result.val)
    /\ \A n \in Names : ScalarCells(variables[n])

\* [[1,2],3] has been evaluated and refused with NestedMatrices
C12_Witness ==
    /\ tokens = NestedFirst(1, 2, 3)
    /\ pc = "done"
    /\ parsed.st = "Ok"
    /\ Len(parsed.node.rows) = 1
    /\ parsed.node.rows[1][1].k = "Matrix"
    /\ result = Err(NestedMatrices)

\* the statement read is the literal of r rows of c cells each, the cells
\* being 1, 2, 3, ... in row-major order
IsLiteral(r, c) ==
    /\ Len(tokens) = 2 * r * c + 2
    /\ tokens[1] = LB
    /\ tokens = MatrixLiteral([i \in 1..r |-> c])

\* the statement read is `[ name ]` with name bound to a scalar
IsCellScalarRead ==
    /\ Len(tokens) = 4
    /\ tokens = CellRead(tokens[2].s)
    /\ before[tokens[2].s].k = "Scalar"

\* C13: a literal of one row and one cell evaluates to the Scalar of the
\* cell, `[]` to the empty 0 x 0 Matrix, and any other literal of r rows of c
\* cells to the Matrix of shape (r, c) holding the cells in row-major order.
C13_LiteralValue ==
    /\ (Finished /\ Len(tokens) = 4 /\ tokens = SingleCell(tokens[2].n))
          => result = Ok(Scalar(Num(tokens[2].n)))
    /\ (Finished /\ IsCellScalarRead) => result = Ok(Scalar(before[tokens[2].s].n))
    /\ (Finished /\ tokens = EmptyLiteral)
          => result = Ok(MatrixVal([data |-> <<>>, shape |-> <<0, 0>>]))
    /\ \A r \in 1..MaxRows, c \in 1..MaxRowLen :
          (Finished /\ IsLiteral(r, c) /\ <<r, c>> # <<1, 1>>)
             => result = Ok(MatrixVal([data |-> [i \in 1..(r * c) |-> Num(i)],
                                       shape |-> <<r, c>>]))

\* [1,2;3,4] has been evaluated, to the 2 x 2 matrix 1 2 / 3 4
C13_Witness ==
    /\ tokens = MatrixLiteral(<<2, 2>>)
    /\ pc = "done"
    /\ result = Ok(MatrixVal([data |-> <<Num(1), Num(2), Num(3), Num(4)>>,
                              shape |-> <<2, 2>>]))

\* the rows of the Matrix node the parser returned
NodeRows == parsed.node.rows

\* the parser returned a Matrix node whose rows differ in length
RaggedNode ==
    /\ parsed.st = "Ok"
    /\ parsed.node.k = "Matrix"
    /\ \E r \in 1..Len(NodeRows) : Len(NodeRows[r]) # Len(NodeRows[1])

\* every cell of the node is a number
NumberCells ==
    \A r \in 1..Len(NodeRows) : \A c \in 1..Len(NodeRows[r]) : NodeRows[r][c].k = "Number"

\* the first row whose length is not that of row 1
FirstOddRow ==
    CHOOSE r \in 1..Len(NodeRows) :
        /\ Len(NodeRows[r]) # Len(NodeRows[1])
        /\ \A q \in 1..(r - 1) : Len(NodeRows[q]) = Len(NodeRows[1])

\* C14: a Matrix node whose rows differ in length fails with
\* InconsistantMatrixWidth(length of row 1, length of the first odd row); the
\* rows before the odd one have been evaluated by then (an unbound name in
\* them is reported first, an assignment in them is made) and no cell of the
\* odd row has (an unbound name in it is not reported, an assignment in it is
\* not made).
C14_WidthCheckOrder ==
    /\ (Finished /\ RaggedNode /\ NumberCells)
          => result = Err(InconsistantMatrixWidth(Len(NodeRows[1]),
                                                  Len(NodeRows[FirstOddRow])))
    /\ (Finished /\ Len(tokens) = 8
          /\ tokens = RaggedRead(tokens[2].n, tokens[4].n, tokens[6].s))
          => result = Err(InconsistantMatrixWidth(2, 1)) /\ variables = before
    /\ (Finished /\ Len(tokens) = 8
          /\ tokens = ReadRagged(tokens[2].s, tokens[4].n, tokens[6].n))
          => result = (CASE before[tokens[2].s].k = "Unbound" ->
                                Err(NonexistantVar(tokens[2].s))
                         [] before[tokens[2].s].k = "Matrix" -> Err(NestedMatrices)
                         [] OTHER -> Err(InconsistantMatrixWidth(1, 2)))
    /\ (Finished /\ Len(tokens) = 10
          /\ tokens = AssignRagged(tokens[2].s, tokens[4].n, tokens[6].n, tokens[8].n))
          => /\ result = Err(InconsistantMatrixWidth(1, 2))
             /\ variables = [before EXCEPT ![tokens[2].s] = Scalar(Num(tokens[4].n))]
    /\ (Finished /\ Len(tokens) = 10
          /\ tokens = RaggedAssign(tokens[2].n, tokens[4].n, tokens[6].s, tokens[8].n))
          => result = Err(InconsistantMatrixWidth(2, 1)) /\ variables = before

\* [1,2;z] with z unbound: the width of the second row is refused before z
\* is looked up
C14_Witness ==
    /\ tokens = RaggedRead(1, 2, "z")
    /\ before["z"] = Unbound
    /\ pc = "done"
    /\ result = Err(InconsistantMatrixWidth(2, 1))

-----------------------------------------------------------------------------
(* Properties of statements: parentheses.                                  *)

\* the statement read ends with an open parenthesis still unclosed:
\* `( a o b`, `a o (`, `( ( a`, `(` or `( (`
IsOpenEnded ==
    \/ /\ Len(tokens) = 5
       /\ tokens[3].k \in ArithTokens
       /\ tokens = OpenGroup(tokens[2].n, tokens[3].k, tokens[4].n)
    \/ /\ Len(tokens) = 4
       /\ tokens[2].k \in ArithTokens
       /\ tokens = OperatorOpen(tokens[1].n, tokens[2].k)
    \/ Len(tokens) = 4 /\ tokens = OpenTwice(tokens[3].n)
    \/ tokens = OpenAlone
    \/ tokens = OpenOpen

\* C15: an expression that ends with an open parenthesis pending is refused
\* with UnmatchedOpenParen, also when nothing has been output (`(`), and
\* UnexpectedEndOfInput is reported only for a statement with no parenthesis
\* pending.
C15_UnmatchedOpenParen ==
    /\ (Parsed /\ IsOpenEnded) => parsed = ParseErr("UnmatchedOpenParen")
    /\ (Parsed /\ parsed.st = "Err" /\ parsed.err = "UnexpectedEndOfInput") => ~IsOpenEnded

\* `(` alone is refused with UnexpectedEndOfInput
C15_OpenAlone ==
    /\ tokens = OpenAlone
    /\ pc = "done"
    /\ parsed = ParseErr("UnexpectedEndOfInput")

\* the statement read is `a o b )` or `( a ) )`
IsCloseUnmatched ==
    \/ /\ Len(tokens) = 5
       /\ tokens[2].k \in ArithTokens
       /\ tokens = CloseAlone(tokens[1].n, tokens[2].k, tokens[3].n)
    \/ Len(tokens) = 5 /\ tokens = CloseTwice(tokens[2].n)

\* the statement read is `a o1 ( b o2 c ) o3 d`
IsGrouped ==
    /\ Len(tokens) = 10
    /\ {tokens[2].k, tokens[5].k, tokens[8].k} \subseteq ArithTokens
    /\ tokens = Grouped(tokens[1].n, tokens[2].k, tokens[4].n, tokens[5].k, tokens[6].n,
                        tokens[8].k, tokens[9].n)

\* expr with every Variable(name) replaced by the nodes of group
RECURSIVE Subst(_, _, _)
Subst(expr, name, group) ==
    IF expr = <<>> THEN <<>>
    ELSE (IF Head(expr).k = "Variable" /\ Head(expr).s = name THEN group
          ELSE <<Head(expr)>>) \o Subst(Tail(expr), name, group)

\* the queue `b o2 c` is parsed to on its own: c and b under the operator
GroupQueue ==
    <<OperatorNode(OperatorOf(tokens[5])), NumberNode(tokens[6].n), NumberNode(tokens[4].n)>>

\* the parse of `a o1 x o3 d`, the statement read with a name for its group
UngroupedParse ==
    Parser_parse(Ungrouped(tokens[1].n, tokens[2].k, "x", tokens[8].k, tokens[9].n))

\* C16: a `)` after an operand with no `(` open is refused with
\* UnmatchedCloseParen, and a matched `)` pops the operators pushed since its
\* `(` and no other and restores the precedence saved at the `(`:
\* `a o1 ( b o2 c ) o3 d` is parsed as `a o1 x o3 d` is, with the queue of
\* `b o2 c` in the place of x.
C16_CloseParen ==
    /\ (Parsed /\ IsCloseUnmatched) => parsed = ParseErr("UnmatchedCloseParen")
    /\ (Parsed /\ IsGrouped) =>
          /\ parsed.st = "Ok"
          /\ parsed.node =
                [UngroupedParse.node EXCEPT
                    !.expr = Subst(UngroupedParse.node.expr, "x", GroupQueue)]

\* 2 * ( 2 + 3 ) + 4 has been parsed to the queue of 2 2 3 + * 4 + and
\* evaluated to 14
C16_Witness ==
    /\ tokens = Grouped(2, "Asterisk", 2, "Plus", 3, "Plus", 4)
    /\ pc = "done"
    /\ parsed.node.expr =
          Reverse(<<NumberNode(2), NumberNode(2), NumberNode(3), OperatorNode("Add"),
                    OperatorNode("Multiply"), NumberNode(4), OperatorNode("Add")>>)
    /\ result = Ok(Scalar(Num(14)))

\* the statement read is `( a + b ) * c`
IsSumTimes ==
    /\ Len(tokens) = 8
    /\ tokens = SumTimes(tokens[2].n, tokens[4].n, tokens[7].n)

\* the statement read is `a * c + b * c`
IsDistributed ==
    /\ Len(tokens) = 8
    /\ tokens = Distributed(tokens[1].n, tokens[5].n, tokens[3].n)

\* the statement read is `a * ( b + c )`
IsTimesSum ==
    /\ Len(tokens) = 8
    /\ tokens = TimesSum(tokens[1].n, tokens[4].n, tokens[6].n)

-----------------------------------------------------------------------------
(* Properties of statements: assignment targets.                           *)

\* the statement read is `name = v`
IsAssignLit ==
    /\ Len(tokens) = 4
    /\ tokens = AssignLit(tokens[1].s, tokens[3].n)

\* the statement read is `name = other = v`
IsAssignChain ==
    /\ Len(tokens) = 6
    /\ tokens = AssignChain(tokens[1].s, tokens[3].s, tokens[5].n)

\* C18: the target of an assignment is not looked up: `name = v` succeeds
\* whether name is bound or not, binds name to v and yields Variable(name);
\* `name = other = v` binds other and name to v.
C18_LazyTarget ==
    /\ (Finished /\ IsAssignLit) =>
          /\ result = Ok(VariableVal(tokens[1].s))
          /\ variables = [before EXCEPT ![tokens[1].s] = Scalar(Operand(3))]
    /\ (Finished /\ IsAssignChain) =>
          /\ result = Ok(VariableVal(tokens[1].s))
          /\ variables = [before EXCEPT ![tokens[3].s] = Scalar(Operand(5)),
                                        ![tokens[1].s] = Scalar(Operand(5))]

\* x = y = 5 with x and y unbound: both are bound to 5
C18_Witness ==
    /\ tokens = AssignChain("x", "y", 5)
    /\ before["x"] = Unbound
    /\ before["y"] = Unbound
    /\ pc = "done"
    /\ result = Ok(VariableVal("x"))
    /\ variables["x"] = Scalar(Num(5))
    /\ variables["y"] = Scalar(Num(5))

\* the statement read is `a = b`, `[ a , b ] = c`, or `a + name = b` with
\* name bound: an assignment whose left operand is a value
IsAssignToValue ==
    \/ Len(tokens) = 4 /\ tokens = LitAssign(tokens[1].n, tokens[3].n)
    \/ Len(tokens) = 8 /\ tokens = MatrixAssign(tokens[2].n, tokens[4].n, tokens[7].n)
    \/ /\ Len(tokens) = 6
       /\ tokens = SumAssign(tokens[1].n, tokens[3].s, tokens[5].n)
       /\ before[tokens[3].s] # Unbound

\* the statement read is `( name = v ) + a = b`: the left operand of the
\* second assignment is the sum
IsAssignToSum ==
    /\ Len(tokens) = 10
    /\ tokens = ParenAssignPlusAssign(tokens[2].s, tokens[4].n, tokens[7].n, tokens[9].n)

\* C19: a statement in which Assign is applied to a left operand that is not
\* a Variable fails with AssignmentToNonVariable and has bound nothing.
C19_AssignmentToNonVariable ==
    (Finished /\ (IsAssignToValue \/ IsAssignToSum)) =>
       /\ result = Err(AssignmentToNonVariable)
       /\ variables = before

\* (y = 3) + 1 = 5 with y unbound is refused with AssignmentToNonVariable and
\* y is bound to 3
C19_InnerBindingKept ==
    /\ tokens = ParenAssignPlusAssign("y", 3, 1, 5)
    /\ before["y"] = Unbound
    /\ pc = "done"
    /\ result = Err(AssignmentToNonVariable)
    /\ variables["y"] = Scalar(Num(3))

\* the statement read is `name = rhs`
IsAssignment ==
    /\ Len(tokens) >= 4
    /\ tokens[1].k = "Identifier"
    /\ tokens[2] = Equal

\* the name assigned to
Target == tokens[1].s

\* the statement read is `name = other` with other unbound
IsAssignUnbound ==
    /\ Len(tokens) = 4
    /\ tokens = AssignVar(Target, tokens[3].s)
    /\ before[tokens[3].s] = Unbound

\* the statement read is `name = [ a , b ] + [ a , b , c ]`
IsAssignMismatch ==
    /\ Len(tokens) = 16
    /\ tokens = AssignMismatch(Target, tokens[4].n, tokens[6].n, tokens[14].n)

\* the statement read is `name = [ a , b ] / [ a , b ]`
IsAssignNoninvertible ==
    /\ Len(tokens) = 14
    /\ tokens = AssignNoninvertible(Target, tokens[4].n, tokens[6].n)

\* the statement read is `name = [ [ a , b ] , c ]`
IsAssignNested ==
    /\ Len(tokens) = 12
    /\ tokens = AssignNested(Target, tokens[5].n, tokens[7].n, tokens[10].n)

\* the statement read is `name = ( inner = v ) + other` with other unbound
\* once inner is bound
IsAssignInnerUnbound ==
    /\ Len(tokens) = 10
    /\ tokens = AssignParenAssignPlus(Target, tokens[4].s, tokens[6].n, tokens[9].s)
    /\ tokens[9].s # tokens[4].s
    /\ before[tokens[9].s] = Unbound

\* C20: when the right-hand side of `name = rhs` fails to evaluate (an
\* unbound variable, a shape mismatch, a non-invertible divisor, a nested
\* matrix), the statement returns that error and name is bound to what it
\* was bound to before the statement, or still unbound.
C20_FailedRhs ==
    /\ (Finished /\ IsAssignment) => result.st \in {"Ok", "Err"}
    /\ (Finished /\ IsAssignment /\ result.st = "Err") => variables[Target] = before[Target]
    /\ (Finished /\ IsAssignUnbound) => result = Err(NonexistantVar(tokens[3].s))
    /\ (Finished /\ IsAssignMismatch) =>
          result = Err(DimensionsMismatch(<<1, 2>>, <<1, 3>>))
    /\ (Finished /\ IsAssignNoninvertible) => result = Err(NoninvertibleDivisorMatrix)
    /\ (Finished /\ IsAssignNested) => result = Err(NestedMatrices)
    /\ (Finished /\ IsAssignInnerUnbound) => result = Err(NonexistantVar(tokens[9].s))

\* y = (y = 1) + z with y and z unbound: the right-hand side fails with
\* NonexistantVar("z") and y is bound to 1
C20_TargetRebound ==
    /\ tokens = AssignParenAssignPlus("y", "y", 1, "z")
    /\ before["y"] = Unbound
    /\ pc = "done"
    /\ result = Err(NonexistantVar("z"))
    /\ variables["y"] = Scalar(Num(1))

-----------------------------------------------------------------------------
(* Properties of statements: the implicit `ans`.                           *)

\* the node the parser returned
StmtNode == parsed.node

\* the statement read holds an `=` outside any matrix literal
HasTopLevelAssign ==
    \E i \in 1..Len(tokens) :
        /\ tokens[i] = Equal
        /\ Cardinality({j \in 1..i : tokens[j] = LB}) = Cardinality({j \in 1..i : tokens[j] = RB})

\* the statement read is one name, bare or in parentheses
IsBareVariable ==
    \/ Len(tokens) = 2 /\ tokens = Read(tokens[1].s)
    \/ Len(tokens) = 4 /\ tokens = ParenRead(tokens[2].s)

\* C21: a statement that parses has store_in_ans set exactly when its node
\* is a Number, a Matrix, or an arithmetic expression whose postfix sequence
\* holds no Assign; a bare variable and a statement with an assignment have
\* it clear.
C21_StoreInAnsRule ==
    (Parsed /\ parsed.st = "Ok") =>
       /\ StmtNode.store_in_ans =
             (\/ StmtNode.k \in {"Number", "Matrix"}
              \/ StmtNode.k = "ArithmaticExpr" /\ ~ContainsAssign(StmtNode.expr))
       /\ StmtNode.k \in {"Number", "Matrix", "ArithmaticExpr", "Variable"}
       /\ IsBareVariable => (StmtNode.k = "Variable" /\ ~StmtNode.store_in_ans)
       /\ HasTopLevelAssign =>
             (StmtNode.k = "ArithmaticExpr" /\ ContainsAssign(StmtNode.expr)
                /\ ~StmtNode.store_in_ans)
       /\ (~IsBareVariable /\ ~HasTopLevelAssign) => StmtNode.store_in_ans

\* `(y = 3) + z` has been parsed, with store_in_ans clear
C21_Witness ==
    /\ tokens = ParenAssignPlus("y", 3, "z")
    /\ parsed.st = "Ok"
    /\ StmtNode.k = "ArithmaticExpr"
    /\ ContainsAssign(StmtNode.expr)
    /\ ~StmtNode.store_in_ans

\* the statement has been evaluated and has returned a value
Succeeded == pc = "done" /\ result.st = "Ok"

\* the statement read holds an assignment to `ans`
AssignsAns ==
    \E i \in 1..(Len(tokens) - 1) : tokens[i] = I("ans") /\ tokens[i + 1] = Equal

\* the value returned is a Variable, or the node is a bare Variable
EndsInVariable == result.val.k = "Variable" \/ StmtNode.k = "Variable"

\* C22 as stated: after a successful statement with store_in_ans set and a
\* value that is not a Variable, `ans` is the value returned; after one whose
\* value is a Variable, or whose node is a bare Variable, `ans` is what it
\* was; the flags of the node are as the parser set them.
C22_AnsLeftAlone ==
    /\ (Succeeded /\ StmtNode.store_in_ans /\ result.val.k # "Variable")
          => variables["ans"] = result.val
    /\ (Succeeded /\ EndsInVariable) => variables["ans"] = before["ans"]
    /\ Finished => parsed = Parser_parse(tokens)

\* C22, amended: the same, `ans` being what it was after a statement that
\* ends in a Variable unless the statement assigns to `ans` itself.
C22_ImplicitAns ==
    /\ (Succeeded /\ StmtNode.store_in_ans /\ result.val.k # "Variable")
          => variables["ans"] = result.val
    /\ (Succeeded /\ EndsInVariable /\ ~AssignsAns) => variables["ans"] = before["ans"]
    /\ (Succeeded /\ EndsInVariable /\ AssignsAns) => variables["ans"] # Unbound
    /\ Finished => parsed = Parser_parse(tokens)

\* x = 5 where `ans` is 1: x is bound and `ans` is still 1
C22_Witness ==
    /\ tokens = AssignLit("x", 5)
    /\ before["ans"] = Scalar(Num(1))
    /\ Succeeded
    /\ result = Ok(VariableVal("x"))
    /\ variables["ans"] = Scalar(Num(1))

\* the statement has been through Engine::evaluate
Evaluated == Finished /\ parsed.st = "Ok"

\* the names the statement read assigns to
AssignedNames ==
    {tokens[i].s : i \in {j \in 1..(Len(tokens) - 1) :
                             tokens[j].k = "Identifier" /\ tokens[j + 1] = Equal}}

\* C23: an evaluation changes the environment only at the targets of the
\* statement's assignments and, when store_in_ans is set, at `ans`; a
\* statement with store_in_ans clear and no assignment, such as a bare name
\* whether bound or not, leaves the environment as it was.
C23_EnvironmentFrame ==
    Evaluated =>
       /\ \A n \in Names :
             variables[n] # before[n] =>
                (n \in AssignedNames \/ (n = "ans" /\ StmtNode.store_in_ans))
       /\ (~StmtNode.store_in_ans /\ AssignedNames = {}) => variables = before
       /\ IsBareVariable =>
             /\ variables = before
             /\ result = (IF before[StmtNode.s] = Unbound
                          THEN Err(NonexistantVar(StmtNode.s))
                          ELSE Ok(before[StmtNode.s]))

\* [x = 2] + 3 where y is 3 and `ans` is 1: x becomes 2, `ans` becomes 5,
\* y and z are as they were
C23_Witness ==
    /\ tokens = CellAssignPlus("x", 2, 3)
    /\ before["y"] = Scalar(Num(3))
    /\ before["ans"] = Scalar(Num(1))
    /\ Succeeded
    /\ variables = [before EXCEPT !["x"] = Scalar(Num(2)), !["ans"] = Scalar(Num(5))]

-----------------------------------------------------------------------------
(* Properties of sessions: values are copied, never shared. *)

\* the statement just evaluated follows a successful `y = x` and does not
\* itself assign to y
AfterCopy ==
    /\ prev = AssignVar("y", "x")
    /\ pc = "done"
    /\ before["x"] # Unbound
    /\ "y" \notin AssignedNames

\* the statement just evaluated gives `x` or `ans` another value
Rebinds(n) == variables[n] # before[n]

\* C24: after `y = x` the name y holds the value that x had; a later statement
\* that rebinds x or `ans` leaves the value of y as it was, whether that value
\* is a scalar or a matrix.
C24_ValueSemantics ==
    AfterCopy =>
        /\ before["y"] = before["x"]
        /\ before["y"].k \in {"Scalar", "Matrix"}
        /\ variables["y"] = before["y"]

C24_Witness ==
    /\ nstmts = 3
    /\ prev = AssignVar("y", "x")
    /\ tokens = AssignLit("x", 3)
    /\ pc = "done"
    /\ Rebinds("x")
    /\ before["x"].k = "Matrix"
    /\ before["x"].m.shape = <<1, 2>>
    /\ variables["x"] = Scalar(Num(3))
    /\ variables["y"] = before["x"]

-----------------------------------------------------------------------------
(* Properties of RuntimeVal arithmetic.                                    *)

BothMatrices == lhs.k = "Matrix" /\ mat.k = "Matrix"

RECURSIVE DotProduct(_, _, _, _, _)
\* the sum over k < n of l[i, k] * r[k, j]
DotProduct(l, r, i, j, n) ==
    IF n = 0 THEN Zero
    ELSE FAdd(DotProduct(l, r, i, j, n - 1), FMul(At(l, i, n - 1), At(r, n - 1, j)))

\* res is the matrix of shape sh whose cell (i, j) is Cell(i, j); the empty
\* shape is that of Matrix::new()
IsMatrixOf(res, sh, Cell(_, _)) ==
    /\ res.st = "Ok"
    /\ res.val.k = "Matrix"
    /\ get_shape(res.val.m) = sh
    /\ Len(res.val.m.data) = sh[1] * sh[2]
    /\ \A i \in 0..(sh[1] - 1), j \in 0..(sh[2] - 1) : At(res.val.m, i, j) = Cell(i, j)

Mismatch == Err(DimensionsMismatch(get_shape(lhs.m), get_shape(mat.m)))

\* C25: on two matrices, + and - give the cell-wise result exactly when the
\* shapes are identical, * gives the (lhs.rows, rhs.cols) product exactly when
\* lhs.cols = rhs.rows; every other pair gives DimensionsMismatch(shape_l,
\* shape_r); no assertion of the Matrix operators fails.
C25_ShapeChecking ==
    (BothMatrices /\ op \in {"try_add", "try_sub", "try_mul"}) =>
        /\ out.res.st # "Panic"
        /\ op = "try_add" =>
              IF get_shape(lhs.m) = get_shape(mat.m)
              THEN LET Sum(i, j) == FAdd(At(lhs.m, i, j), At(mat.m, i, j))
                   IN  IsMatrixOf(out.res, get_shape(lhs.m), Sum)
              ELSE out.res = Mismatch
        /\ op = "try_sub" =>
              IF get_shape(lhs.m) = get_shape(mat.m)
              THEN LET Diff(i, j) == FSub(At(lhs.m, i, j), At(mat.m, i, j))
                   IN  IsMatrixOf(out.res, get_shape(lhs.m), Diff)
              ELSE out.res = Mismatch
        /\ op = "try_mul" =>
              IF width(lhs.m) = height(mat.m)
              THEN LET Prod(i, j) == DotProduct(lhs.m, mat.m, i, j, width(lhs.m))
                   IN  IsMatrixOf(out.res, <<height(lhs.m), width(mat.m)>>, Prod)
              ELSE out.res = Mismatch

\* [[1, 2]] * [[1], [1]] is the scalar-free 1 x 1 product [[3]]
C25_Witness ==
    /\ op = "try_mul"
    /\ lhs = MatrixVal(Banded(<<1, 2>>, 1, 2, 0))
    /\ mat = MatrixVal(Banded(<<2, 1>>, 1, 0, 1))
    /\ out.res = Ok(MatrixVal([data |-> <<Num(3)>>, shape |-> <<1, 1>>]))

\* q times r is l, cell by cell: q is l times the inverse of r
IsQuotient(q, l, r) ==
    /\ get_shape(q) = get_shape(l)
    /\ \A i \in 0..(height(l) - 1), j \in 0..(width(l) - 1) :
          DotProduct(q, r, i, j, width(q)) = At(l, i, j)

\* the outcomes of Matrix / Matrix that are errors
DivisionErrors ==
    (BothMatrices /\ op = "try_div") =>
        /\ out.res.st # "Panic"
        /\ ~is_square(mat.m) => out.res = Err(NoninvertibleDivisorMatrix)
        /\ (is_square(mat.m) /\ get_shape(lhs.m) # get_shape(mat.m)) => out.res = Mismatch
        /\ (get_shape(lhs.m) = get_shape(mat.m)
               /\ (Singular(mat.m) \/ mat.m = Matrix_new)) =>
              out.res = Err(NoninvertibleDivisorMatrix)
        /\ out.res.st = "Ok" =>
              /\ is_square(mat.m)
              /\ get_shape(lhs.m) = get_shape(mat.m)
              /\ ~Singular(mat.m)
              /\ out.res.val.k = "Matrix"

\* C26: Matrix / Matrix succeeds only for a square, invertible rhs of the shape
\* of lhs, and the quotient is lhs times the inverse of rhs; a non-square rhs
\* gives NoninvertibleDivisorMatrix, a square rhs of another shape gives
\* DimensionsMismatch, a singular or empty rhs gives NoninvertibleDivisorMatrix.
C26_DivisionPreconditions ==
    /\ DivisionErrors
    /\ (BothMatrices /\ op = "try_div" /\ out.res.st = "Ok") =>
          IsQuotient(out.res.val.m, lhs.m, mat.m)

\* [[0, 1], [1, 0]] divided by itself gives itself, not the identity
C26_ExchangeLost ==
    /\ op = "try_div"
    /\ lhs = MatrixVal(Banded(<<2, 2>>, 0, 1, 1))
    /\ mat = lhs
    /\ out.res = Ok(lhs)

\* the scalar and the matrix of a mixed pair of operands
ScalarLeft == lhs.k = "Scalar" /\ mat.k = "Matrix"

ScalarRight == lhs.k = "Matrix" /\ mat.k = "Scalar"

\* the operation applied to the cell c of the matrix and the scalar s, in the
\* order of the operands
Broadcast(c, s) ==
    CASE op = "try_add" -> FAdd(c, s)
      [] op = "try_mul" -> FMul(c, s)
      [] op = "try_sub" -> IF ScalarLeft THEN FSub(s, c) ELSE FSub(c, s)
      [] op = "try_div" -> IF ScalarLeft THEN FDiv(s, c) ELSE FDiv(c, s)

\* C27: a scalar s and a matrix M give a matrix of the shape of M whose cell
\* (i, j) is M[i,j]+s for s+M and M+s, M[i,j]*s for s*M and M*s, M[i,j]-s for
\* M-s, s-M[i,j] for s-M, M[i,j]/s for M/s and s/M[i,j] for s/M; never an error.
C27_ScalarBroadcasting ==
    /\ (ScalarLeft /\ op # "none") =>
          LET Cell(i, j) == Broadcast(At(mat.m, i, j), lhs.n)
          IN  IsMatrixOf(out.res, get_shape(mat.m), Cell)
    /\ (ScalarRight /\ op # "none") =>
          LET Cell(i, j) == Broadcast(At(lhs.m, i, j), mat.n)
          IN  IsMatrixOf(out.res, get_shape(lhs.m), Cell)

\* 2 - [[1, 2], [0, 1]] is [[1, 0], [2, 1]]
C27_Witness ==
    /\ op = "try_sub"
    /\ lhs = Scalar(Num(2))
    /\ mat = MatrixVal(Banded(<<2, 2>>, 1, 2, 0))
    /\ out.res = Ok(MatrixVal([data |-> <<Num(1), Num(0), Num(2), Num(1)>>,
                               shape |-> <<2, 2>>]))

-----------------------------------------------------------------------------
(* Properties of the engine as a whole.                                    *)

\* the statement's node has been evaluated a second time
Reevaluated == op = "evaluate"

C29_NoPanic ==
    /\ pc # "crashed"
    /\ parsed.st # "Panic"
    /\ result.st # "Panic"

\* `x / []` with x a 1 x 2 matrix stops at the shape test of try_div, short
\* of the inversion and of the assertion of the Matrix operator
C29_Witness ==
    /\ tokens = <<I("x"), Tok("Slash"), LB, RB, EOF>>
    /\ before["x"] = MatrixVal(ones_rect(1, 2))
    /\ pc = "done"
    /\ parsed.st = "Ok"
    /\ result = Err(DimensionsMismatch(<<1, 2>>, <<0, 0>>))

\* the Assign operators of a postfix sequence
AssignCount(expr) ==
    Cardinality({i \in 1..Len(expr) : expr[i].k = "Operator" /\ expr[i].s = "Assign"})

\* the operation applied last: the sequence is stored reversed and popped
\* from its end, so its first node is the last one met
Outermost(expr) == expr[1]

\* C30: a statement that parses and evaluates successfully holds at most one
\* Assign in its postfix sequence, and that Assign is the operation applied
\* last.
C30_SingleOutermostAssign ==
    (Succeeded /\ StmtNode.k = "ArithmaticExpr") =>
        /\ AssignCount(StmtNode.expr) <= 1
        /\ AssignCount(StmtNode.expr) = 1 =>
              (Outermost(StmtNode.expr).k = "Operator" /\ Outermost(StmtNode.expr).s = "Assign")

\* `x = y = 5` succeeds with two Assign operators in its sequence
C30_TwoAssigns ==
    /\ tokens = AssignChain("x", "y", 5)
    /\ Succeeded
    /\ AssignCount(StmtNode.expr) = 2
    /\ variables["x"] = Scalar(Num(5))
    /\ variables["y"] = Scalar(Num(5))

\* the positions of the names of the statement read
NamePositions == {i \in 1..Len(tokens) : tokens[i].k = "Identifier"}

\* the name the statement starts its assignment with: its first identifier
FirstName == tokens[MinOf(NamePositions)].s

\* C31: no name is ever bound to a Variable; no Variable operand reaches
\* try_add, try_sub, try_mul or try_div (each answers one with its
\* unreachable!()); a Variable is returned only when the operation applied
\* last was an Assign, it names the target of that Assign, and the name is
\* bound by then.
C31_VariableContainment ==
    /\ \A n \in Names : variables[n].k \in {"Unbound", "Scalar", "Matrix"}
    /\ \A n \in Names : before[n].k \in {"Unbound", "Scalar", "Matrix"}
    /\ result.st # "Panic"
    /\ (Succeeded /\ result.val.k = "Variable") =>
          /\ StmtNode.k = "ArithmaticExpr"
          /\ Outermost(StmtNode.expr) = OperatorNode("Assign")
          /\ NamePositions # {}
          /\ result.val = VariableVal(FirstName)
          /\ variables[FirstName].k \in {"Scalar", "Matrix"}

\* `x = y = 5`: the value is Variable(x), the target of the Assign applied
\* last, and x holds the scalar 5, not Variable(y)
C31_Witness ==
    /\ tokens = AssignChain("x", "y", 5)
    /\ before["x"] = Unbound
    /\ Succeeded
    /\ result = Ok(VariableVal("x"))
    /\ variables["x"] = Scalar(Num(5))
    /\ variables["y"] = Scalar(Num(5))

-----------------------------------------------------------------------------
(* Properties of the matrix values.                                        *)

\* data.len() == rows * cols
WellFormed(m) == Len(m.data) = height(m) * width(m)

\* the rows given to try_from_rows differ in length
Uneven(rows) == \E i \in 1..Len(rows) : Len(rows[i]) # Len(rows[1])

\* C32: every matrix a constructor builds, and every matrix an arithmetic
\* operation, lu_decomp or try_invert returns, has data.len() = rows * cols;
\* try_from_rows answers rows of unequal length with InconsistantMatrixWidth
\* and builds the matrix of the rows otherwise.
C32_BufferInvariant ==
    /\ ~out.panic =>
          /\ WellFormed(out.val)
          /\ WellFormed(out.lower)
          /\ WellFormed(out.upper)
    /\ (out.res.st = "Ok" /\ out.res.val.k = "Matrix") => WellFormed(out.res.val.m)
    /\ op = "try_from_rows" =>
          IF lhs = <<>> THEN out.res = Ok(MatrixVal(Matrix_new))
          ELSE IF Uneven(lhs)
               THEN /\ out.res.st = "Err"
                    /\ out.res.err.k = "InconsistantMatrixWidth"
                    /\ out.res.err.a = <<Len(lhs[1])>>
                    /\ \E i \in 1..Len(lhs) : out.res.err.b = <<Len(lhs[i])>> /\ Len(lhs[i]) # Len(lhs[1])
               ELSE /\ out.res.st = "Ok"
                    /\ get_shape(out.res.val.m) = <<Len(lhs), Len(lhs[1])>>
                    /\ \A r \in 1..Len(lhs), c \in 1..Len(lhs[1]) :
                          At(out.res.val.m, r - 1, c - 1) = lhs[r][c]

\* the rows [1, 2] and [0, 1, 1] are refused with the widths 2 and 3
C32_Witness ==
    /\ op = "try_from_rows"
    /\ lhs = <<<<Num(1), Num(2)>>, <<Num(0), Num(1), Num(1)>>>>
    /\ out.res = Err(InconsistantMatrixWidth(2, 3))

-----------------------------------------------------------------------------
(* Properties of the parser.                                               *)

\* token i completes an operand: a literal, a name or a closing parenthesis
EndsOperand(i) == i >= 1 /\ tokens[i].k \in {"NumericLiteral", "Identifier", "CloseParen"}

\* token i is misplaced: an operator or `)` with no operand before it, or a
\* literal, a name, `[` or `(` right after an operand
Misplaced(i) ==
    IF tokens[i].k \in OperatorTokens \cup {"CloseParen"} THEN ~EndsOperand(i - 1)
    ELSE IF tokens[i].k \in {"NumericLiteral", "Identifier", "OpenBracket", "OpenParen"}
         THEN EndsOperand(i - 1)
    ELSE FALSE

\* the parentheses open before token i
OpenBefore(i) ==
    Cardinality({k \in 1..(i - 1) : tokens[k] = LP})
    - Cardinality({k \in 1..(i - 1) : tokens[k] = RP})

\* the tokens before i are literals, names, operators and parentheses, none
\* misplaced and no `)` without its `(`: the parser reaches token i outside
\* a matrix literal with no error so far
PlainBefore(i) ==
    \A k \in 1..(i - 1) :
        /\ tokens[k].k \in {"NumericLiteral", "Identifier", "OpenParen", "CloseParen"}
                             \cup OperatorTokens
        /\ ~Misplaced(k)
        /\ tokens[k] = RP => OpenBefore(k) > 0

\* C33: outside a matrix literal, an operator or `)` that arrives with no
\* operand before it (at the start, after an operator, after `(`) and a
\* literal, a name, `[` or `(` that arrives right after an operand make the
\* parse fail with InvalidArithmaticExpression.
C33_Adjacency ==
    (Parsed /\ \E i \in 1..Len(tokens) : PlainBefore(i) /\ Misplaced(i)) =>
        parsed = ParseErr("InvalidArithmaticExpression")

\* `1 + + 1`: the second operator has no operand before it
C33_Witness ==
    /\ tokens = <<N(1), Tok("Plus"), Tok("Plus"), N(1), EOF>>
    /\ pc = "done"
    /\ parsed = ParseErr("InvalidArithmaticExpression")

\* the tokens next_token has yet to hand out: the saved one, then the input
Pending(p) ==
    (IF p.last_token # NoToken THEN <<p.last_token>> ELSE <<>>) \o p.input

IsSuffix(s, t) ==
    Len(s) <= Len(t) /\ s = SubSeq(t, Len(t) - Len(s) + 1, Len(t))

\* parse_expr on a parser that has `input` ahead of it
ExprFrom(input, inside) ==
    parse_expr([Parser_new(input) EXCEPT !.is_inside_matrix = inside])

\* the tokens that end an expression; inside a matrix, also the first token
\* of an operand
Enders(inside) ==
    {"EndOfFile", "EndOfLine", "SemiColon", "Comma", "CloseBracket"}
    \cup (IF inside THEN {"NumericLiteral", "Identifier", "OpenBracket", "OpenParen"}
          ELSE {})

\* an expression parsed from `input`: what is left to hand out is the tail
\* of the input from the ending token on, the next next_token call returns
\* that token, and the node is the one the tokens before it give
HandsBack(input, inside) ==
    LET e == ExprFrom(input, inside)
        used == Len(input) - Len(Pending(e.p))
    IN  e.r.st = "Ok" =>
          /\ Pending(e.p) # <<>>
          /\ IsSuffix(Pending(e.p), input)
          /\ Pending(e.p)[1].k \in Enders(inside)
          /\ next_token(e.p).tok = input[used + 1]
          /\ Pending(next_token(e.p).p) = SubSeq(input, used + 2, Len(input))
          /\ ExprFrom(SubSeq(input, 1, used) \o <<EOF>>, inside).r = e.r

\* the statement opens a matrix literal that is not `[]`
OpensMatrix == Len(tokens) >= 2 /\ tokens[1] = LB /\ tokens[2] # RB

\* C34: parse_expr does not consume the token that ends the expression (a
\* terminator, a comma, `]`, or inside a matrix the first token of the next
\* cell): it is the next token next_token returns, followed by the rest of
\* the input, so parse_stmt and the matrix loop go on from that token.
C34_EndingTokenKept ==
    Parsed =>
        /\ HandsBack(tokens, FALSE)
        /\ OpensMatrix => HandsBack(Tail(tokens), TRUE)
        /\ ExprFrom(tokens, FALSE).r.st = "Ok" =>
              parsed = StmtEnd(ExprFrom(tokens, FALSE).r.node,
                               tokens[Len(tokens) - Len(Pending(ExprFrom(tokens, FALSE).p)) + 1])

\* `[1 x]`: the name ends the first cell and opens the second, `]` ends the
\* second cell, end-of-input ends the statement
C34_Witness ==
    /\ tokens = <<LB, N(1), I("x"), RB, EOF>>
    /\ pc \in {"parsed", "done"}
    /\ parsed.st = "Ok"
    /\ parsed.node.rows = <<<<NumberNode(1), VariableNode("x")>>>>
    /\ parsed.node.print_result
    /\ Pending(ExprFrom(Tail(tokens), TRUE).p) = <<I("x"), RB, EOF>>
    /\ Pending(ExprFrom(tokens, FALSE).p) = <<EOF>>

\* the statement opens a matrix literal whose first cell opens a nested one
OpensNested == Len(tokens) >= 3 /\ tokens[1] = LB /\ tokens[2] = LB

\* parse_matrix on the nested literal: entered from the first cell of the
\* outer literal, with `[` saved and the outer flag set
ChildMatrix ==
    parse_matrix([input |-> SubSeq(tokens, 3, Len(tokens)),
                  is_inside_matrix |-> TRUE,
                  last_token |-> LB])

IsNestedSpaced == \E a \in Lits, b \in Lits, c \in Lits : tokens = NestedSpaced(a, b, c)

\* C35: is_inside_matrix is true wherever the parser is inside an unclosed
\* `[`: it is still true when a nested literal has closed, so `[[a,b] c]` is
\* one row of two cells, and it is false once the outermost literal has
\* closed.
C35_MatrixContext ==
    Parsed =>
        /\ (OpensNested /\ ChildMatrix.r.st = "Ok") => ChildMatrix.p.is_inside_matrix
        /\ IsNestedSpaced =>
              /\ parsed.st = "Ok"
              /\ parsed.node.k = "Matrix"
              /\ Len(parsed.node.rows) = 1
              /\ Len(parsed.node.rows[1]) = 2
              /\ parsed.node.rows[1][2] = NumberNode(tokens[7].n)
        /\ (tokens[1] = LB /\ ExprFrom(tokens, FALSE).r.st = "Ok") =>
              ~ExprFrom(tokens, FALSE).p.is_inside_matrix

\* `[[1,2] 3]` is refused: the nested `]` has cleared the flag
C35_NestedRefused ==
    /\ tokens = NestedSpaced(1, 2, 3)
    /\ pc = "done"
    /\ parsed = ParseErr("InvalidArithmaticExpression")
    /\ ChildMatrix.r.st = "Ok"
    /\ ~ChildMatrix.p.is_inside_matrix

OperatorCount(expr) == Cardinality({i \in 1..Len(expr) : expr[i].k = "Operator"})

\* the statement parsed is a postfix sequence
IsSequence == Parsed /\ parsed.st = "Ok" /\ StmtNode.k = "ArithmaticExpr"

\* at least two nodes, none of them a sequence itself
SequenceShape ==
    IsSequence =>
        /\ Len(StmtNode.expr) >= 2
        /\ \A i \in 1..Len(StmtNode.expr) : StmtNode.expr[i].k # "ArithmaticExpr"

\* one more operand than operators; stored reversed, the operation applied
\* last comes first and the operand read first comes last
SequenceBalanced ==
    IsSequence =>
        /\ Len(StmtNode.expr) = 2 * OperatorCount(StmtNode.expr) + 1
        /\ StmtNode.expr[1].k = "Operator"
        /\ Last(StmtNode.expr).k # "Operator"

\* the statement is one operand and nothing else
IsSingleOperand == Len(tokens) = 2 /\ tokens[1].k \in {"NumericLiteral", "Identifier"}

\* the last token before end-of-input is an operator
EndsInOperator == Len(tokens) >= 2 /\ tokens[Len(tokens) - 1].k \in OperatorTokens

\* C36: a parsed ArithmaticExpr holds at least two nodes, none of them an
\* ArithmaticExpr, one more operand than operators, in reverse evaluation
\* order; the engine never answers InvalidArithmaticExpression to a parsed
\* node; a statement ending in an operator is not parsed; a single operand
\* is returned unwrapped.
C36_WellFormedPostfix ==
    /\ SequenceShape
    /\ SequenceBalanced
    /\ (pc = "done" /\ parsed.st = "Ok") => result # Err(InvalidArithmaticExpression)
    /\ (Parsed /\ EndsInOperator) => parsed.st # "Ok"
    /\ (Parsed /\ IsSingleOperand) => (parsed.st = "Ok" /\ StmtNode.k \in {"Number", "Variable"})

\* `1 +` is parsed into the sequence 1 + and the engine refuses it
C36_DanglingOperator ==
    /\ tokens = <<N(1), Tok("Plus"), EOF>>
    /\ pc = "done"
    /\ parsed.st = "Ok"
    /\ StmtNode.expr = <<OperatorNode("Add"), NumberNode(1)>>
    /\ result = Err(InvalidArithmaticExpression)

\* entry (0,0) is zero and an entry below it in column 0 is not: the first
\* pivot needs a row exchange
FirstPivotSwap(m) ==
    /\ height(m) >= 2
    /\ width(m) >= 1
    /\ m.data[1] = Zero
    /\ \E r \in 1..(height(m) - 1) : m.data[r * width(m) + 1] # Zero

\* C37: lu_decomp returns for every matrix, whatever its shape and its zero
\* entries: no index leaves the shape and no subtraction goes below zero.
C37_LuTotal == op = "lu_decomp" => ~out.panic

\* [[0,1],[1,0]]: the exchange at the first pivot panics
C37_FirstSwapPanics ==
    /\ op = "lu_decomp"
    /\ mat = [data |-> <<Zero, One, One, Zero>>, shape |-> <<2, 2>>]
    /\ FirstPivotSwap(mat)
    /\ out.panic

\* the tokens from some position of the statement to its end
Suffixes == {SubSeq(tokens, i, Len(tokens)) : i \in 1..Len(tokens)}

\* parse_expr with `input` ahead returns a node or an error, and a node only
\* after it has taken at least one token
ExprAdvances(input, inside) ==
    LET e == ExprFrom(input, inside)
    IN  /\ e.r.st \in {"Ok", "Err"}
        /\ IsSuffix(Pending(e.p), input)
        /\ e.r.st = "Ok" => Len(Pending(e.p)) < Len(input)

\* parse_matrix entered at a `[` with `rest` after it returns a node or an
\* error, and a node only after it has taken a `]` too
MatrixAdvances(rest, inside) ==
    LET e == parse_matrix([input |-> rest, is_inside_matrix |-> inside, last_token |-> LB])
    IN  /\ e.r.st \in {"Ok", "Err"}
        /\ IsSuffix(Pending(e.p), rest)
        /\ e.r.st = "Ok" => Len(Pending(e.p)) < Len(rest)

\* the fourth token is one the matrix loop gives back to parse_expr
GivenBack ==
    /\ Len(tokens) >= 5
    /\ SubSeq(tokens, 1, 3) = <<LB, N(tokens[2].n), Comma>>
    /\ tokens[4].k \in {"CloseCurly", "EndOfLine", "CloseParen"} \cup OperatorTokens

\* C38: parse returns a node or a ParsingError for every statement; from
\* every position of the token stream, inside a matrix or not, parse_expr and
\* parse_matrix return, and return a node only after taking a token, so the
\* statement and the matrix loop never go round on the same token; a token
\* the matrix loop gives back to parse_expr (`}`, an end-of-line, a stray
\* operator) ends the parse with an error.
C38_ParserReturns ==
    Parsed =>
        /\ parsed.st \in {"Ok", "Err"}
        /\ \A input \in Suffixes : \A inside \in BOOLEAN :
              /\ ExprAdvances(input, inside)
              /\ Head(input) = LB => MatrixAdvances(Tail(input), inside)
        /\ GivenBack => parsed.st = "Err"

\* `[1, /`: the matrix loop gives `/` back and parse_expr refuses it
C38_Witness ==
    /\ tokens = <<LB, N(1), Comma, Tok("Slash"), EOF>>
    /\ GivenBack
    /\ pc = "done"
    /\ parsed = ParseErr("InvalidArithmaticExpression")

=============================================================================
